---- MODULE Spec2Model ----
(***************************************************************************)
(* V4L2 compatibility layer: the camera proxy (V4L2CameraProxy) that       *)
(* emulates one V4L2 capture device on top of a libcamera camera.          *)
(* The proxy's handlers are translated from v4l2_camera_proxy.cpp; the     *)
(* backend camera wrapper (V4L2Camera) and the open file (V4L2CameraFile)  *)
(* are modelled at their interface.                                        *)
(***************************************************************************)
EXTENDS Integers, Sequences, FiniteSets, TLC

(* ------------------------------------------------------------------ *)
(* Bounds of the model                                                  *)
(* ------------------------------------------------------------------ *)

\* The largest buffer count an application requests and the backend grants.
MaxBuffers == 2

\* The open file objects (V4L2CameraFile) an application can hold.
Files == {"fA", "fB"}

\* The addresses the environment's mmap hands out.
Addrs == {"m1", "m2"}

\* "No file": a null V4L2CameraFile pointer.
NoFile == "null"

(* ------------------------------------------------------------------ *)
(* Program constants                                                    *)
(* ------------------------------------------------------------------ *)

V4L2_PRIORITY_UNSET == 0
V4L2_PRIORITY_RECORD == 3

\* The values an application passes to VIDIOC_S_PRIORITY: the lowest, one in
\* between, the highest, and one above the valid range.
PriorityArgs == {V4L2_PRIORITY_UNSET, V4L2_PRIORITY_RECORD - 1,
                 V4L2_PRIORITY_RECORD, V4L2_PRIORITY_RECORD + 1}

\* The flags of a v4l2_buffer the proxy sets and clears.
BufFlags == {"QUEUED", "DONE", "ERROR", "MAPPED"}

(* ------------------------------------------------------------------ *)
(* The static pixel format table                                        *)
(* ------------------------------------------------------------------ *)

Plane(b, h, v) == [bitsPerPixel |-> b, hSubSampling |-> h, vSubSampling |-> v]

Info(f, v4l2, n, p1, p2, p3) ==
    [format |-> f, v4l2Format |-> v4l2, numPlanes |-> n, planes |-> <<p1, p2, p3>>]

pixelFormatInfo ==
    << Info("RGB888",   "V4L2_PIX_FMT_BGR24",   1, Plane(24,1,1), Plane(0,0,0),  Plane(0,0,0)),
       Info("BGR888",   "V4L2_PIX_FMT_RGB24",   1, Plane(24,1,1), Plane(0,0,0),  Plane(0,0,0)),
       Info("BGRA8888", "V4L2_PIX_FMT_ARGB32",  1, Plane(32,1,1), Plane(0,0,0),  Plane(0,0,0)),
       Info("UYVY",     "V4L2_PIX_FMT_UYVY",    1, Plane(16,1,1), Plane(0,0,0),  Plane(0,0,0)),
       Info("VYUY",     "V4L2_PIX_FMT_VYUY",    1, Plane(16,1,1), Plane(0,0,0),  Plane(0,0,0)),
       Info("YUYV",     "V4L2_PIX_FMT_YUYV",    1, Plane(16,1,1), Plane(0,0,0),  Plane(0,0,0)),
       Info("YVYU",     "V4L2_PIX_FMT_YVYU",    1, Plane(16,1,1), Plane(0,0,0),  Plane(0,0,0)),
       Info("NV12",     "V4L2_PIX_FMT_NV12",    2, Plane(8,1,1),  Plane(16,2,2), Plane(0,0,0)),
       Info("NV21",     "V4L2_PIX_FMT_NV21",    2, Plane(8,1,1),  Plane(16,2,2), Plane(0,0,0)),
       Info("NV16",     "V4L2_PIX_FMT_NV16",    2, Plane(8,1,1),  Plane(16,2,1), Plane(0,0,0)),
       Info("NV61",     "V4L2_PIX_FMT_NV61",    2, Plane(8,1,1),  Plane(16,2,1), Plane(0,0,0)),
       Info("NV24",     "V4L2_PIX_FMT_NV24",    2, Plane(8,1,1),  Plane(16,1,1), Plane(0,0,0)),
       Info("NV42",     "V4L2_PIX_FMT_NV42",    2, Plane(8,1,1),  Plane(16,1,1), Plane(0,0,0)),
       Info("YUV420",   "V4L2_PIX_FMT_YUV420",  3, Plane(8,1,1),  Plane(8,2,2),  Plane(8,2,2)),
       Info("YUV422",   "V4L2_PIX_FMT_YUV422P", 3, Plane(8,1,1),  Plane(8,2,1),  Plane(8,2,1)),
       Info("MJPEG",    "V4L2_PIX_FMT_MJPEG",   1, Plane(16,1,1), Plane(0,0,0),  Plane(0,0,0)) >>

\* std::find_if over the table: the first position whose entry satisfies the
\* test, 0 for end().
InfoByV4L2(format) ==
    LET hits == {i \in 1..Len(pixelFormatInfo) : pixelFormatInfo[i].v4l2Format = format}
    IN  IF hits = {} THEN 0 ELSE CHOOSE i \in hits : \A j \in hits : i <= j

InfoByDrm(format) ==
    LET hits == {i \in 1..Len(pixelFormatInfo) : pixelFormatInfo[i].format = format}
    IN  IF hits = {} THEN 0 ELSE CHOOSE i \in hits : \A j \in hits : i <= j

\* A default-constructed (invalid) PixelFormat.
InvalidPixelFormat == "PixelFormat()"

bplMultiplier(format) ==
    LET i == InfoByV4L2(format)
    IN  IF i = 0 THEN 0 ELSE pixelFormatInfo[i].planes[1].bitsPerPixel \div 8

\* A faulty variant of the sum over the planes: the first plane alone.
firstPlaneOnly(info, n) == info.planes[1].bitsPerPixel

RECURSIVE PlaneSum(_, _)
PlaneSum(info, n) ==
    IF n = 0 THEN 0
    ELSE PlaneSum(info, n - 1)
         + ((info.planes[n].bitsPerPixel \div info.planes[n].hSubSampling)
                \div info.planes[n].vSubSampling)

imageSize(format, width, height) ==
    LET i == InfoByV4L2(format)
    IN  IF i = 0 THEN 0
        ELSE (width * height * PlaneSum(pixelFormatInfo[i], pixelFormatInfo[i].numPlanes)) \div 8

v4l2ToDrm(format) ==
    LET i == InfoByV4L2(format)
    IN  IF i = 0 THEN InvalidPixelFormat ELSE pixelFormatInfo[i].format

drmToV4L2(format) ==
    LET i == InfoByDrm(format)
    IN  IF i = 0 THEN format ELSE pixelFormatInfo[i].v4l2Format

(* ------------------------------------------------------------------ *)
(* What the backend advertises (StreamFormats of the stream             *)
(* configuration): pixel formats in order, and the sizes of each.       *)
(* ------------------------------------------------------------------ *)

Size(w, h) == [width |-> w, height |-> h]

BackendPixelFormats == <<"YUYV", "NV12">>

BackendSizes(format) ==
    CASE format = "YUYV" -> <<Size(4, 2), Size(2, 2)>>
      [] format = "NV12" -> <<Size(4, 2)>>
      [] OTHER -> <<>>

SeqRange(s) == {s[i] : i \in 1..Len(s)}

\* The stream configuration the backend has when it is opened
\* (getStreamConfig): the first format it advertises, or a raw format that
\* pixelFormatInfo does not list.
DefaultConfig ==
    [pixelFormat |-> BackendPixelFormats[1],
     size |-> BackendSizes(BackendPixelFormats[1])[1]]

RawConfig == [pixelFormat |-> "SRGGB8", size |-> Size(4, 2)]

\* What configure writes to *streamConfigOut: the configuration it was asked
\* for, or the one the backend has adjusted it to.
AsAsked == [pixelFormat |-> "asked", size |-> Size(0, 0)]

vcam_configure(asked, actual) == IF actual = AsAsked THEN asked ELSE actual

\* The formats an application asks for: advertised ones, an encoding the
\* backend does not advertise, a size it does not advertise, an encoding
\* outside the format table.
FormatArgs ==
    { [pixelformat |-> "V4L2_PIX_FMT_YUYV",  width |-> 2, height |-> 2],
      [pixelformat |-> "V4L2_PIX_FMT_YUYV",  width |-> 4, height |-> 2],
      [pixelformat |-> "V4L2_PIX_FMT_NV12",  width |-> 2, height |-> 2],
      [pixelformat |-> "V4L2_PIX_FMT_RGB24", width |-> 4, height |-> 2],
      [pixelformat |-> "V4L2_PIX_FMT_GREY",  width |-> 8, height |-> 8] }

(* ------------------------------------------------------------------ *)
(* State                                                                *)
(* ------------------------------------------------------------------ *)

VARIABLES
    \* V4L2CameraProxy
    files_,            \* std::set<V4L2CameraFile *>: the open files
    refcount_,         \* number of opens not yet closed
    owner_,            \* the file that owns the device, or NoFile
    bufferCount_,      \* number of buffers as the proxy counts them
    currentBuf_,       \* the dequeue cursor
    buffers_,          \* std::vector<v4l2_buffer>, slot i at position i + 1
    mmaps_,            \* std::map<void *, unsigned int>: address -> index
    sizeimage_,        \* the frame size in bytes
    curV4L2Format_,    \* the format G_FMT reports
    streamConfig_,     \* the stream configuration (pixel format and size)
    vcam_,             \* the V4L2Camera the proxy owns (the backend adapter)
    \* V4L2CameraFile, one per file object
    priority,          \* the file's v4l2_priority
    \* Threads
    waiting,           \* files with a dequeue suspended in waitForBufferAvailable
    proxyMutex_,       \* the thread that holds the proxy's lock, if any
    \* Observation of the calls
    observe,           \* the operations whose calls are recorded (never changes)
    last,              \* the recorded call that ended last: operation, file, result, argument
    reply,             \* the v4l2_format the recorded call was given and the one it left
    tried,             \* the <<given, left>> pairs of the recorded TRY_FMT calls so far
    queueOrder         \* indices accepted by QBUF and not yet dequeued, in order

proxyVars == <<files_, refcount_, owner_, bufferCount_, currentBuf_, buffers_,
               mmaps_, sizeimage_, curV4L2Format_, streamConfig_>>

vars == <<files_, refcount_, owner_, bufferCount_, currentBuf_, buffers_,
          mmaps_, sizeimage_, curV4L2Format_, streamConfig_, vcam_, priority,
          waiting, proxyMutex_, observe, last, reply, tried, queueOrder>>

\* Everything the device remembers: all of the state but the observation of
\* the calls.
devVars == <<files_, refcount_, owner_, bufferCount_, currentBuf_, buffers_,
             mmaps_, sizeimage_, curV4L2Format_, streamConfig_, vcam_, priority,
             waiting>>

\* O_NONBLOCK of each file object, fixed when it is opened.
nonBlocking(file) == file = "fB"

\* The record of a finished call. n is the call's number argument (the count
\* of REQBUFS, the value of S_PRIORITY, the index of QBUF and QUERYBUF) or
\* the index DQBUF returns.
\* A call of an operation that is not observed is recorded as "other"; a fatal
\* signal is recorded whatever the operation.
Fatal == {"SIGFPE", "SIGSEGV"}

Call(op, file, ret, n) ==
    IF op \in observe
    THEN [op |-> op, file |-> file, ret |-> ret, n |-> n]
    ELSE [op |-> "other", file |-> NoFile,
          ret |-> IF ret \in Fatal THEN ret ELSE "OK", n |-> 0]

\* No format call is recorded.
NoReply == [given |-> "none", left |-> "none"]

\* The process is alive: no call has ended in a fatal signal.
Alive == last.ret \notin Fatal

\* proxyMutex_ as nobody holds it, as a thread that executes a call on `file`
\* holds it, and as a thread suspended in the wait of a dequeue on `file`
\* would hold it.
LockFree == [by |-> NoFile, in |-> "none"]

HeldBy(file) == [by |-> file, in |-> "call"]

HeldInWait(file) == [by |-> file, in |-> "wait"]

\* MutexLocker locker(proxyMutex_) at the entry of a call on `file`: the
\* thread goes on when the lock is free or when it has taken it already.
Enters(file) ==
    /\ Alive
    /\ proxyMutex_ \in {LockFree, HeldBy(file)}

\* A faulty variant: a blocking dequeue that goes to sleep without
\* locker->unlock(), so that the sleeping thread holds the lock.
waitKeepsLock(file) == HeldInWait(file)

\* locker->unlock() before the wait of a blocking dequeue.
unlockForWait(file) == LockFree

(* ------------------------------------------------------------------ *)
(* V4L2Camera: the backend adapter, at its interface.                   *)
(*   isOpen_                the camera is acquired                      *)
(*   isRunning_             capture is started                          *)
(*   allocated_             number of buffers the backend holds         *)
(*   pendingRequests_       indices submitted and not yet completed     *)
(*   completedBuffers_      completions not yet drained                 *)
(*   bufferAvailableCount_  completions not yet consumed by a dequeue   *)
(* ------------------------------------------------------------------ *)

vcamClosed ==
    [isOpen_ |-> FALSE, isRunning_ |-> FALSE, allocated_ |-> 0,
     pendingRequests_ |-> <<>>, completedBuffers_ |-> {},
     bufferAvailableCount_ |-> 0]

\* open(), when it succeeds: the camera is acquired.
vcam_open(v) == [v EXCEPT !.isOpen_ = TRUE]

\* close(): the camera is released and nothing of the session is kept.
vcam_close(v) == vcamClosed

\* allocBuffers(count), when it succeeds.
vcam_allocBuffers(v, count) == [v EXCEPT !.allocated_ = count]

\* freeBuffers(): the buffers and every request and completion that refers
\* to them are gone.
vcam_freeBuffers(v) ==
    [v EXCEPT !.allocated_ = 0, !.pendingRequests_ = <<>>,
              !.completedBuffers_ = {}, !.bufferAvailableCount_ = 0]

\* getBufferFd(index).isValid()
vcam_bufferFdValid(v, index) == index < v.allocated_

\* qbuf(index) accepts only a buffer it holds whose request is not pending.
vcam_qbufAccepts(v, index) ==
    /\ index < v.allocated_
    /\ \A k \in 1..Len(v.pendingRequests_) : v.pendingRequests_[k] # index

\* qbuf(index), when it succeeds.
vcam_qbuf(v, index) == [v EXCEPT !.pendingRequests_ = Append(@, index)]

\* streamOn(), when it succeeds.
vcam_streamOn(v) == [v EXCEPT !.isRunning_ = TRUE]

\* streamOff(), when it succeeds: capture halts and pending buffers are
\* discarded, not delivered.
vcam_streamOff(v) ==
    [v EXCEPT !.isRunning_ = FALSE, !.pendingRequests_ = <<>>,
              !.completedBuffers_ = {}, !.bufferAvailableCount_ = 0]

\* completedBuffers(): the completions are handed over and forgotten.
vcam_completedBuffers(v) == [v EXCEPT !.completedBuffers_ = {}]

\* isBufferAvailable(): true consumes one available completion.
vcam_isBufferAvailable(v) == v.bufferAvailableCount_ >= 1

vcam_takeBuffer(v) ==
    IF v.bufferAvailableCount_ >= 1
    THEN [v EXCEPT !.bufferAvailableCount_ = @ - 1] ELSE v

\* waitForBufferAvailable() returns when a completion is available or the
\* stream is not running.
vcam_waitOver(v) == v.bufferAvailableCount_ >= 1 \/ ~v.isRunning_

RemoveAt(s, k) == [i \in 1..(Len(s) - 1) |-> IF i < k THEN s[i] ELSE s[i + 1]]

\* The FrameMetadata of a completion, without its status: the bytes used of
\* the first plane, the sequence number and the timestamp in nanoseconds.
NoData == [bytesused |-> 0, sequence |-> 0, timestamp |-> 0]

\* A frame of 3 bytes, the 8th of the stream, captured 1 s and 1500 ns after
\* the clock's origin.
LateData == [bytesused |-> 3, sequence |-> 7, timestamp |-> 1000001500]

\* requestComplete: the k-th pending request finishes with `status` and the
\* metadata `data`.
vcam_requestComplete(v, k, status, data) ==
    [v EXCEPT !.pendingRequests_ = RemoveAt(@, k),
              !.completedBuffers_ = @ \cup {[index |-> v.pendingRequests_[k],
                                            status |-> status, data |-> data]},
              !.bufferAvailableCount_ = @ + 1]

(* ------------------------------------------------------------------ *)
(* Faulty variants of the proxy's checks: what a handler would compute  *)
(* with the check left out. The properties below must tell each from    *)
(* the real one.                                                        *)
(* ------------------------------------------------------------------ *)

\* The priority check left out of a handler.
priorityNotChecked(file) == TRUE

\* maxPriority without the loop over the open files.
maxPriorityNotComputed == V4L2_PRIORITY_UNSET

\* acquire that returns without recording the owner.
acquireForgets(file) == owner_

\* release without the test that the file is the owner.
releaseByAnyone(file) == NoFile

\* release that returns without clearing the owner.
releaseForgets(file) == owner_

\* reqbufs(0) without the tests for mappings and for the running stream.
freeNeverRefused == FALSE

\* close without the test of the reference count: every close closes the
\* backend.
closesAlways == FALSE

\* streamoff without the loop that clears the flags.
flagsNotCleared(bufs) == bufs

\* The loop of streamoff clearing the ERROR flag too.
clearsError(bufs) ==
    [i \in 1..Len(bufs) |-> [bufs[i] EXCEPT !.flags = @ \ {"QUEUED", "DONE", "ERROR"}]]

\* streamon without the reset of the cursor.
cursorKept == currentBuf_

\* qbuf without the test of the slot's QUEUED flag.
queuedNotRead(index, stale) == FALSE

\* updateBuffers that rewrites the status of every slot from the pending
\* completions alone, so a slot with nothing pending loses DONE and ERROR.
drainFromScratch(bufs, done) ==
    [i \in 1..Len(bufs) |->
        [bufs[i] EXCEPT !.flags =
            (@ \ {"DONE", "ERROR"})
               \cup (IF \E c \in done : c.index = i - 1 /\ c.status = "FrameSuccess"
                     THEN {"DONE"} ELSE {})
               \cup (IF \E c \in done : c.index = i - 1 /\ c.status = "FrameError"
                     THEN {"ERROR"} ELSE {})]]

\* The loop of reqbufs without buf.m.offset = i * sizeimage and
\* buf.index = i.
slotsAllAlike(count, size) ==
    [i \in 1..count |->
        [index |-> 0, length |-> size, offset |-> 0, flags |-> {}, bytesused |-> 0,
         sequence |-> 0, timestamp |-> [tv_sec |-> 0, tv_usec |-> 0]]]

(* ------------------------------------------------------------------ *)
(* V4L2CameraProxy: helpers                                             *)
(* ------------------------------------------------------------------ *)

\* A freshly constructed v4l2_buffer of reqbufs.
NewBuffer(i, size) ==
    [index |-> i, length |-> size, offset |-> i * size, flags |-> {},
     bytesused |-> 0, sequence |-> 0, timestamp |-> [tv_sec |-> 0, tv_usec |-> 0]]

\* The v4l2_pix_format of a pixel format and a size.
pixFormat(pf, size) ==
    [width        |-> size.width,
     height       |-> size.height,
     pixelformat  |-> pf,
     bytesperline |-> bplMultiplier(pf) * size.width,
     sizeimage    |-> imageSize(pf, size.width, size.height)]

setFmtFromConfig(cfg) == pixFormat(drmToV4L2(cfg.pixelFormat), cfg.size)

calculateSizeImage(cfg) ==
    imageSize(drmToV4L2(cfg.pixelFormat), cfg.size.width, cfg.size.height)

\* A faulty variant: the format of the current configuration, not the first
\* advertised one, when the asked one is not advertised.
currentWhenNotAdvertised(asked) ==
    IF asked \in SeqRange(BackendPixelFormats) THEN asked ELSE streamConfig_.pixelFormat

\* tryFormat: the pixel format it settles on, the first one the backend
\* advertises when the asked one is not advertised.
tryPixelFormat(asked) ==
    IF asked \in SeqRange(BackendPixelFormats) THEN asked ELSE BackendPixelFormats[1]

\* A faulty variant: the asked size, without the search in the sizes of
\* the format.
sizeNotChecked(format, want) == want

\* tryFormat: the size it settles on, the first one of the format when the
\* asked one is not advertised.
trySize(format, want) ==
    IF want \in SeqRange(BackendSizes(format)) THEN want ELSE BackendSizes(format)[1]

tryFormatOf(format, want) == pixFormat(drmToV4L2(format), trySize(format, want))

\* tryFormat: the negotiated v4l2_format for a requested one.
tryFormat(arg) ==
    tryFormatOf(tryPixelFormat(v4l2ToDrm(arg.pixelformat)), Size(arg.width, arg.height))

\* The stream configuration s_fmt and reqbufs ask the backend for.
configOf(fmt) ==
    [pixelFormat |-> v4l2ToDrm(fmt.pixelformat), size |-> Size(fmt.width, fmt.height)]

Max(S) == CHOOSE x \in S : \A y \in S : y <= x

maxPriority ==
    IF files_ = {} THEN V4L2_PRIORITY_UNSET
    ELSE Max({priority[f] : f \in files_})

\* The check the handlers make before they change anything:
\* file->priority() < maxPriority() fails with EBUSY.
priorityAllows(file) == ~(priority[file] < maxPriority)

hasOwnership(file) == owner_ = file

\* acquire: its return value and the owner it leaves.
acquireRet(file) ==
    IF owner_ = file THEN "OK"
    ELSE IF owner_ # NoFile THEN "EBUSY" ELSE "OK"

acquireOwner(file) ==
    IF owner_ = file THEN owner_
    ELSE IF owner_ # NoFile THEN owner_ ELSE file

\* release: the owner it leaves.
releaseOwner(file) ==
    IF owner_ # file THEN owner_ ELSE NoFile

\* The struct timeval updateBuffers makes of a timestamp in nanoseconds:
\* tv_sec = timestamp / 1000000000 and tv_usec = timestamp % 1000000.
timeval(timestamp) ==
    [tv_sec |-> timestamp \div 1000000000, tv_usec |-> timestamp % 1000000]

\* The body of the loop of updateBuffers: one completion written to its slot.
\* (buf.field, set to V4L2_FIELD_NONE, is not part of the slot here.)
completeBuffer(buf, c) ==
    IF c.status = "FrameSuccess"
    THEN [buf EXCEPT !.bytesused = c.data.bytesused,
                     !.timestamp = timeval(c.data.timestamp),
                     !.sequence = c.data.sequence,
                     !.flags = @ \cup {"DONE"}]
    ELSE IF c.status = "FrameError"
    THEN [buf EXCEPT !.flags = @ \cup {"ERROR"}]
    ELSE buf

\* The loop of updateBuffers over the completions of one slot. The flags are
\* the same in any order; when several successful completions of one slot are
\* pending, the metadata of one of them stays (the set does not keep the
\* order of the backend's vector, in which the last one stays).
RECURSIVE updateBuffer(_, _)
updateBuffer(buf, mine) ==
    IF mine = {} THEN buf
    ELSE updateBuffer(completeBuffer(buf, CHOOSE c \in mine : TRUE),
                      mine \ {CHOOSE c \in mine : TRUE})

\* updateBuffers: the slot table after draining the completions `done`.
updateBuffers(bufs, done) ==
    [i \in 1..Len(bufs) |-> updateBuffer(bufs[i], {c \in done : c.index = i - 1})]

\* Every slot with QUEUED and DONE cleared.
clearQueuedDone(bufs) ==
    [i \in 1..Len(bufs) |-> [bufs[i] EXCEPT !.flags = @ \ {"QUEUED", "DONE"}]]

\* queueOrder without its first occurrence of index i.
RECURSIVE Without(_, _)
Without(s, i) ==
    IF s = <<>> THEN <<>>
    ELSE IF Head(s) = i THEN Tail(s)
    ELSE <<Head(s)>> \o Without(Tail(s), i)

(* ------------------------------------------------------------------ *)
(* Initial state: the proxy as constructed, no file open.               *)
(* ------------------------------------------------------------------ *)

InitOf(obs) ==
    /\ observe = obs
    /\ files_ = {}
    /\ refcount_ = 0
    /\ owner_ = NoFile
    /\ bufferCount_ = 0
    /\ currentBuf_ = 0
    /\ buffers_ = <<>>
    /\ mmaps_ = <<>>
    /\ sizeimage_ = 0
    /\ curV4L2Format_ = [width |-> 0, height |-> 0, pixelformat |-> "0",
                         bytesperline |-> 0, sizeimage |-> 0]
    /\ streamConfig_ = [pixelFormat |-> InvalidPixelFormat, size |-> Size(0, 0)]
    /\ vcam_ = vcamClosed
    /\ priority = [f \in Files |-> V4L2_PRIORITY_UNSET]
    /\ waiting = {}
    /\ proxyMutex_ = LockFree
    /\ last = [op |-> "other", file |-> NoFile, ret |-> "OK", n |-> 0]
    /\ reply = NoReply
    /\ tried = {}
    /\ queueOrder = <<>>

\* A call ends: it is recorded, and the MutexLocker of the call releases the
\* lock.
Ends(op, file, ret, n) ==
    /\ last' = Call(op, file, ret, n)
    /\ observe' = observe
    /\ proxyMutex_' = LockFree
    /\ reply' = NoReply
    /\ tried' = tried

\* A call of G_FMT, TRY_FMT or S_FMT ends: `given` is the v4l2_format in
\* *arg at the call, `left` the one in *arg at the return.
EndsFmt(op, file, ret, given, left) ==
    /\ last' = Call(op, file, ret, 0)
    /\ observe' = observe
    /\ proxyMutex_' = LockFree
    /\ reply' = IF op \in observe THEN [given |-> given, left |-> left] ELSE NoReply
    /\ tried' = IF op = "try_fmt" /\ op \in observe /\ ret = "OK"
                THEN tried \cup {<<given, left>>} ELSE tried

\* A call that returns without changing anything.
Returns(op, file, ret, n) ==
    /\ Ends(op, file, ret, n)
    /\ UNCHANGED <<proxyVars, vcam_, priority, waiting, queueOrder>>

(* ------------------------------------------------------------------ *)
(* open and close                                                       *)
(* ------------------------------------------------------------------ *)

\* V4L2CameraProxy::open, on a file object just constructed.
\* vcamOk: the result of the backend's open. cfg: the stream configuration
\* the backend hands out.
open(file, vcamOk, cfg) ==
    /\ Enters(file)
    /\ file \notin files_
    /\ file \notin waiting
    /\ IF refcount_ # 0
       THEN /\ refcount_' = refcount_ + 1
            /\ files_' = files_ \cup {file}
            /\ Ends("open", file, "OK", 0)
            /\ UNCHANGED <<vcam_, streamConfig_, curV4L2Format_, sizeimage_>>
       ELSE IF ~vcamOk
       THEN /\ Ends("open", file, "EBACKEND", 0)
            /\ UNCHANGED <<vcam_, refcount_, files_, streamConfig_, curV4L2Format_,
                           sizeimage_>>
       ELSE /\ refcount_' = refcount_ + 1
            /\ vcam_' = vcam_open(vcam_)
            /\ streamConfig_' = cfg
            /\ curV4L2Format_' = setFmtFromConfig(cfg)
            /\ sizeimage_' = calculateSizeImage(cfg)
            /\ files_' = files_ \cup {file}
            /\ Ends("open", file, "OK", 0)
    /\ priority' = [priority EXCEPT ![file] = V4L2_PRIORITY_UNSET]
    /\ UNCHANGED <<owner_, bufferCount_, currentBuf_, buffers_, mmaps_>>
    /\ UNCHANGED <<waiting, queueOrder>>

\* `if (--refcount_ > 0) return;` of close: another file is still open.
stillOpen == refcount_ - 1 > 0

\* V4L2CameraProxy::close, and the destruction of the file object.
close(file) ==
    /\ Enters(file)
    /\ file \in files_
    /\ files_' = files_ \ {file}
    /\ owner_' = releaseOwner(file)
    /\ refcount_' = refcount_ - 1
    /\ vcam_' = IF stillOpen THEN vcam_ ELSE vcam_close(vcam_)
    /\ priority' = [priority EXCEPT ![file] = V4L2_PRIORITY_UNSET]
    /\ Ends("close", file, "OK", 0)
    /\ UNCHANGED <<bufferCount_, currentBuf_, buffers_, mmaps_, sizeimage_,
                   curV4L2Format_, streamConfig_>>
    /\ UNCHANGED <<waiting, queueOrder>>

(* ------------------------------------------------------------------ *)
(* Priority                                                             *)
(* ------------------------------------------------------------------ *)

\* A faulty variant: G_PRIORITY that returns file->priority().
ownPriorityReturned(file) ==
    /\ Enters(file)
    /\ file \in files_
    /\ Returns("g_priority", file, "OK", priority[file])

vidioc_g_priority(file) ==
    /\ Enters(file)
    /\ file \in files_
    /\ Returns("g_priority", file, "OK", maxPriority)

vidioc_s_priority(file, arg) ==
    /\ Enters(file)
    /\ file \in files_
    /\ IF arg > V4L2_PRIORITY_RECORD
       THEN Returns("s_priority", file, "EINVAL", arg)
       ELSE IF ~priorityAllows(file)
       THEN Returns("s_priority", file, "EBUSY", arg)
       ELSE /\ priority' = [priority EXCEPT ![file] = arg]
            /\ Ends("s_priority", file, "OK", arg)
            /\ UNCHANGED <<proxyVars, vcam_, waiting, queueOrder>>

(* ------------------------------------------------------------------ *)
(* Format                                                               *)
(* ------------------------------------------------------------------ *)

\* A format call that changes nothing but *arg.
ReturnsFmt(op, file, ret, given, left) ==
    /\ EndsFmt(op, file, ret, given, left)
    /\ UNCHANGED <<proxyVars, vcam_, priority, waiting, queueOrder>>

vidioc_g_fmt(file, typeOk, arg) ==
    /\ Enters(file)
    /\ file \in files_
    /\ IF ~typeOk
       THEN ReturnsFmt("g_fmt", file, "EINVAL", arg, arg)
       ELSE ReturnsFmt("g_fmt", file, "OK", arg, curV4L2Format_)

vidioc_try_fmt(file, typeOk, arg) ==
    /\ Enters(file)
    /\ file \in files_
    /\ IF ~typeOk
       THEN ReturnsFmt("try_fmt", file, "EINVAL", arg, arg)
       ELSE ReturnsFmt("try_fmt", file, "OK", arg, tryFormat(arg))

\* s_fmt from acquire on: the file owns the device, then the backend is
\* configured with cfg.
s_fmtConfigure(file, arg, cfg, configureOk) ==
    /\ owner_' = acquireOwner(file)
    /\ IF ~configureOk
       THEN /\ EndsFmt("s_fmt", file, "EINVAL", arg, tryFormat(arg))
            /\ UNCHANGED <<streamConfig_, sizeimage_, curV4L2Format_>>
       ELSE IF calculateSizeImage(cfg) = 0
       THEN /\ streamConfig_' = cfg
            /\ EndsFmt("s_fmt", file, "EINVAL", arg, tryFormat(arg))
            /\ UNCHANGED <<sizeimage_, curV4L2Format_>>
       ELSE /\ streamConfig_' = cfg
            /\ sizeimage_' = calculateSizeImage(cfg)
            /\ curV4L2Format_' = setFmtFromConfig(cfg)
            /\ EndsFmt("s_fmt", file, "OK", arg, tryFormat(arg))
    /\ UNCHANGED <<files_, refcount_, bufferCount_, currentBuf_, buffers_, mmaps_>>
    /\ UNCHANGED <<vcam_, priority, waiting, queueOrder>>

\* configureOk: the backend accepts the configuration. actual: the
\* configuration it returns.
vidioc_s_fmt(file, typeOk, arg, configureOk, actual) ==
    /\ Enters(file)
    /\ file \in files_
    /\ IF ~typeOk
       THEN ReturnsFmt("s_fmt", file, "EINVAL", arg, arg)
       ELSE IF ~priorityAllows(file)
       THEN ReturnsFmt("s_fmt", file, "EBUSY", arg, arg)
       ELSE IF acquireRet(file) # "OK"
       THEN ReturnsFmt("s_fmt", file, acquireRet(file), arg, arg)
       ELSE s_fmtConfigure(file, arg, vcam_configure(configOf(tryFormat(arg)), actual),
                           configureOk)

(* ------------------------------------------------------------------ *)
(* Buffers                                                              *)
(* ------------------------------------------------------------------ *)

\* The slot table reqbufs builds.
newBuffers(count, size) == [i \in 1..count |-> NewBuffer(i - 1, size)]

\* What reqbufs does to buffers it finds allocated when count > 0:
\* if (bufferCount_ > 0) freeBuffers().
freeBeforeAlloc == bufferCount_ > 0

\* The checks of reqbufs with count = 0 that refuse to free: a mapping
\* exists, or the stream runs.
freeRefused == mmaps_ # <<>> \/ vcam_.isRunning_

\* typeOk: the buffer type and the memory type are the supported ones.
\* configureOk, granted: the backend's answer to configure, and the buffer
\* count of the configuration it returns. allocOk: the result of allocBuffers.
\* actual: the configuration configure returns.
vidioc_reqbufs(file, typeOk, count, configureOk, granted, allocOk, actual) ==
    /\ Enters(file)
    /\ file \in files_
    /\ IF ~typeOk
       THEN Returns("reqbufs", file, "EINVAL", count)
       ELSE IF ~priorityAllows(file)
       THEN Returns("reqbufs", file, "EBUSY", count)
       ELSE IF ~hasOwnership(file) /\ owner_ # NoFile
       THEN Returns("reqbufs", file, "EBUSY", count)
       ELSE IF count = 0
       THEN IF freeRefused
            THEN Returns("reqbufs", file, "EBUSY", count)
            ELSE /\ vcam_' = vcam_freeBuffers(vcam_)
                 /\ buffers_' = <<>>
                 /\ bufferCount_' = 0
                 /\ owner_' = releaseOwner(file)
                 /\ queueOrder' = <<>>
                 /\ Ends("reqbufs", file, "OK", count)
                 /\ UNCHANGED <<files_, refcount_, currentBuf_, mmaps_, sizeimage_,
                                curV4L2Format_, streamConfig_, priority, waiting>>
       ELSE LET freed == freeBeforeAlloc
                v1    == IF freed THEN vcam_freeBuffers(vcam_) ELSE vcam_
                cfg   == vcam_configure(configOf(curV4L2Format_), actual)
            IN  IF ~configureOk
                THEN /\ vcam_' = v1
                     /\ buffers_' = IF freed THEN <<>> ELSE buffers_
                     /\ bufferCount_' = IF freed THEN 0 ELSE bufferCount_
                     /\ queueOrder' = IF freed THEN <<>> ELSE queueOrder
                     /\ Ends("reqbufs", file, "EINVAL", count)
                     /\ UNCHANGED <<files_, refcount_, owner_, currentBuf_, mmaps_,
                                    sizeimage_, curV4L2Format_, streamConfig_,
                                    priority, waiting>>
                ELSE /\ streamConfig_' = cfg
                     /\ sizeimage_' = calculateSizeImage(cfg)
                     /\ curV4L2Format_' = setFmtFromConfig(cfg)
                     /\ bufferCount_' = granted
                     /\ queueOrder' = IF freed THEN <<>> ELSE queueOrder
                     /\ IF ~allocOk
                        THEN /\ vcam_' = v1
                             /\ buffers_' = IF freed THEN <<>> ELSE buffers_
                             /\ Ends("reqbufs", file, "EBACKEND", count)
                             /\ UNCHANGED owner_
                        ELSE /\ vcam_' = vcam_allocBuffers(v1, granted)
                             /\ buffers_' = newBuffers(granted, setFmtFromConfig(cfg).sizeimage)
                             /\ owner_' = acquireOwner(file)
                             /\ Ends("reqbufs", file, "OK", count)
                     /\ UNCHANGED <<files_, refcount_, currentBuf_, mmaps_,
                                    priority, waiting>>

\* The drain every reader of buffer status starts with: updateBuffers().
Drained == updateBuffers(buffers_, vcam_.completedBuffers_)

\* When the table does not hold the slot (the count says it exists, the
\* vector is shorter), *arg = buffers_[arg->index] reads outside the vector:
\* the call either goes on with what it finds there or, with `crash`, ends in
\* SIGSEGV.
vidioc_querybuf(file, typeOk, index, crash) ==
    /\ Enters(file)
    /\ file \in files_
    /\ IF index >= bufferCount_
       THEN Returns("querybuf", file, "EINVAL", index)
       ELSE IF ~typeOk
       THEN Returns("querybuf", file, "EINVAL", index)
       ELSE IF index >= Len(buffers_) /\ crash
       THEN /\ buffers_' = Drained
            /\ vcam_' = vcam_completedBuffers(vcam_)
            /\ Ends("querybuf", file, "SIGSEGV", index)
            /\ UNCHANGED <<files_, refcount_, owner_, bufferCount_, currentBuf_,
                           mmaps_, sizeimage_, curV4L2Format_, streamConfig_,
                           priority, waiting, queueOrder>>
       ELSE /\ buffers_' = Drained
            /\ vcam_' = vcam_completedBuffers(vcam_)
            /\ Ends("querybuf", file, "OK", index)
            /\ UNCHANGED <<files_, refcount_, owner_, bufferCount_, currentBuf_,
                           mmaps_, sizeimage_, curV4L2Format_, streamConfig_,
                           priority, waiting, queueOrder>>

\* The slot's QUEUED flag as qbuf reads it. A slot the table does not hold
\* (the count says it exists, the vector is shorter) is read outside the
\* vector: `stale` is what the read finds there.
readsQueued(index, stale) ==
    IF index < Len(buffers_) THEN "QUEUED" \in buffers_[index + 1].flags ELSE stale

\* backendOk: the backend accepts the request.
vidioc_qbuf(file, typeOk, index, backendOk, stale) ==
    /\ Enters(file)
    /\ file \in files_
    /\ IF index >= bufferCount_
       THEN Returns("qbuf", file, "EINVAL", index)
       ELSE IF readsQueued(index, stale)
       THEN Returns("qbuf", file, "EINVAL", index)
       ELSE IF ~hasOwnership(file)
       THEN Returns("qbuf", file, "EBUSY", index)
       ELSE IF ~typeOk
       THEN Returns("qbuf", file, "EINVAL", index)
       ELSE IF ~(backendOk /\ vcam_qbufAccepts(vcam_, index))
       THEN Returns("qbuf", file, "EBACKEND", index)
       ELSE /\ vcam_' = vcam_qbuf(vcam_, index)
            /\ buffers_' = [buffers_ EXCEPT ![index + 1].flags = @ \cup {"QUEUED"}]
            /\ queueOrder' = Append(queueOrder, index)
            /\ Ends("qbuf", file, "OK", index)
            /\ UNCHANGED <<files_, refcount_, owner_, bufferCount_, currentBuf_,
                           mmaps_, sizeimage_, curV4L2Format_, streamConfig_,
                           priority, waiting>>

\* The slot dqbuf hands out: the one at the cursor.
dqbufSlot == currentBuf_

\* The second half of dqbuf, from the re-check of the running stream on.
\* v is the backend after the wait or the availability test. When the cursor
\* is past the end of the vector, buffers_[currentBuf_] is outside it: the
\* call either goes on with what it finds there or, with `crash`, ends in
\* SIGSEGV.
dqbufFinish(file, v, crash) ==
    IF ~v.isRunning_
    THEN /\ vcam_' = v
         /\ Ends("dqbuf", file, "EINVAL", 0)
         /\ UNCHANGED <<proxyVars, priority, queueOrder>>
    ELSE IF bufferCount_ = 0
    THEN \* (currentBuf_ + 1) % bufferCount_ divides by zero
         /\ vcam_' = vcam_completedBuffers(v)
         /\ buffers_' = updateBuffers(buffers_, v.completedBuffers_)
         /\ Ends("dqbuf", file, "SIGFPE", dqbufSlot)
         /\ UNCHANGED <<files_, refcount_, owner_, bufferCount_, currentBuf_,
                        mmaps_, sizeimage_, curV4L2Format_, streamConfig_,
                        priority, queueOrder>>
    ELSE IF dqbufSlot >= Len(buffers_) /\ crash
    THEN /\ vcam_' = vcam_completedBuffers(v)
         /\ buffers_' = updateBuffers(buffers_, v.completedBuffers_)
         /\ Ends("dqbuf", file, "SIGSEGV", dqbufSlot)
         /\ UNCHANGED <<files_, refcount_, owner_, bufferCount_, currentBuf_,
                        mmaps_, sizeimage_, curV4L2Format_, streamConfig_,
                        priority, queueOrder>>
    ELSE LET bufs == updateBuffers(buffers_, v.completedBuffers_)
             slot == dqbufSlot
         IN  /\ vcam_' = vcam_completedBuffers(v)
             /\ buffers_' = IF slot < Len(bufs)
                            THEN [bufs EXCEPT ![slot + 1].flags = @ \ {"QUEUED", "DONE"},
                                              ![slot + 1].length = sizeimage_]
                            ELSE bufs
             /\ currentBuf_' = (currentBuf_ + 1) % bufferCount_
             /\ queueOrder' = Without(queueOrder, slot)
             /\ Ends("dqbuf", file, "OK", slot)
             /\ UNCHANGED <<files_, refcount_, owner_, bufferCount_, mmaps_,
                            sizeimage_, curV4L2Format_, streamConfig_, priority>>

\* dqbuf up to the wait. On a blocking file the thread releases the lock and
\* suspends; on a non-blocking file the call runs to its end.
vidioc_dqbuf(file, typeOk, index, crash) ==
    /\ Enters(file)
    /\ file \in files_
    /\ file \notin waiting
    /\ IF index >= bufferCount_
       THEN Returns("dqbuf", file, "EINVAL", 0)
       ELSE IF ~hasOwnership(file)
       THEN Returns("dqbuf", file, "EBUSY", 0)
       ELSE IF ~vcam_.isRunning_
       THEN Returns("dqbuf", file, "EINVAL", 0)
       ELSE IF ~typeOk
       THEN Returns("dqbuf", file, "EINVAL", 0)
       ELSE IF ~nonBlocking(file)
       THEN /\ waiting' = waiting \cup {file}
            /\ last' = Call("dqbuf_wait", file, "OK", 0)
            /\ observe' = observe
            /\ reply' = NoReply
            /\ tried' = tried
            /\ proxyMutex_' = unlockForWait(file)
            /\ UNCHANGED <<proxyVars, vcam_, priority, queueOrder>>
       ELSE IF ~vcam_isBufferAvailable(vcam_)
       THEN Returns("dqbuf", file, "EAGAIN", 0)
       ELSE /\ dqbufFinish(file, vcam_takeBuffer(vcam_), crash)
            /\ UNCHANGED waiting

\* The suspended dequeue of `file` wakes, takes the lock again with
\* locker->lock() and finishes.
dqbuf_wake(file, crash) ==
    /\ Alive
    /\ proxyMutex_ = LockFree
    /\ file \in waiting
    /\ vcam_waitOver(vcam_)
    /\ waiting' = waiting \ {file}
    /\ dqbufFinish(file, IF vcam_.isRunning_ THEN vcam_takeBuffer(vcam_) ELSE vcam_, crash)

(* ------------------------------------------------------------------ *)
(* Streaming                                                            *)
(* ------------------------------------------------------------------ *)

\* The cursor a start gives the dequeues: currentBuf_ = 0.
cursorAtStart == 0

vidioc_streamon(file, typeOk, backendOk) ==
    /\ Enters(file)
    /\ file \in files_
    /\ IF bufferCount_ = 0
       THEN Returns("streamon", file, "EINVAL", 0)
       ELSE IF ~typeOk
       THEN Returns("streamon", file, "EINVAL", 0)
       ELSE IF ~priorityAllows(file)
       THEN Returns("streamon", file, "EBUSY", 0)
       ELSE IF ~hasOwnership(file)
       THEN Returns("streamon", file, "EBUSY", 0)
       ELSE IF vcam_.isRunning_
       THEN Returns("streamon", file, "OK", 0)
       ELSE /\ currentBuf_' = cursorAtStart
            /\ vcam_' = IF backendOk THEN vcam_streamOn(vcam_) ELSE vcam_
            /\ Ends("streamon", file, IF backendOk THEN "OK" ELSE "EBACKEND", 0)
            /\ UNCHANGED <<files_, refcount_, owner_, bufferCount_, buffers_, mmaps_,
                           sizeimage_, curV4L2Format_, streamConfig_, priority,
                           waiting, queueOrder>>

vidioc_streamoff(file, typeOk, backendOk) ==
    /\ Enters(file)
    /\ file \in files_
    /\ IF ~typeOk
       THEN Returns("streamoff", file, "EINVAL", 0)
       ELSE IF ~priorityAllows(file)
       THEN Returns("streamoff", file, "EBUSY", 0)
       ELSE IF ~hasOwnership(file) /\ owner_ # NoFile
       THEN Returns("streamoff", file, "EBUSY", 0)
       ELSE /\ vcam_' = IF backendOk THEN vcam_streamOff(vcam_) ELSE vcam_
            /\ buffers_' = clearQueuedDone(buffers_)
            /\ queueOrder' = <<>>
            /\ Ends("streamoff", file, IF backendOk THEN "OK" ELSE "EBACKEND", 0)
            /\ UNCHANGED <<files_, refcount_, owner_, bufferCount_, currentBuf_, mmaps_,
                           sizeimage_, curV4L2Format_, streamConfig_, priority, waiting>>

(* ------------------------------------------------------------------ *)
(* ioctl: the checks before the dispatch                                *)
(* ------------------------------------------------------------------ *)

supportedIoctls_ ==
    {"VIDIOC_QUERYCAP", "VIDIOC_ENUM_FRAMESIZES", "VIDIOC_ENUM_FMT", "VIDIOC_G_FMT",
     "VIDIOC_S_FMT", "VIDIOC_TRY_FMT", "VIDIOC_G_PRIORITY", "VIDIOC_S_PRIORITY",
     "VIDIOC_ENUMINPUT", "VIDIOC_G_INPUT", "VIDIOC_S_INPUT", "VIDIOC_REQBUFS",
     "VIDIOC_QUERYBUF", "VIDIOC_QBUF", "VIDIOC_DQBUF", "VIDIOC_STREAMON",
     "VIDIOC_STREAMOFF"}

\* A request code: its name, and _IOC_DIR(request) as a set of bits.
Request(name, dir) == [name |-> name, dir |-> dir]

\* The request codes the applications send: some of the supported ones and
\* codes outside the supported set, of every direction.
Requests ==
    { Request("VIDIOC_QUERYCAP",   {"_IOC_READ"}),
      Request("VIDIOC_S_PRIORITY", {"_IOC_WRITE"}),
      Request("VIDIOC_S_FMT",      {"_IOC_READ", "_IOC_WRITE"}),
      Request("VIDIOC_LOG_STATUS", {}),
      Request("VIDIOC_G_STD",      {"_IOC_READ"}),
      Request("VIDIOC_S_STD",      {"_IOC_WRITE"}),
      Request("VIDIOC_G_CTRL",     {"_IOC_READ", "_IOC_WRITE"}) }

\* The checks of ioctl before the switch, in their order: the errno they
\* set, "OK" when the request reaches its handler.
ioctlChecks(request, argNull) ==
    IF argNull /\ "_IOC_WRITE" \in request.dir THEN "EFAULT"
    ELSE IF request.name \notin supportedIoctls_ THEN "ENOTTY"
    ELSE IF argNull /\ "_IOC_READ" \in request.dir THEN "EFAULT"
    ELSE "OK"

\* An ioctl that one of the checks turns away; the ones that pass are the
\* handlers' actions.
ioctl(file, request, argNull) ==
    /\ Enters(file)
    /\ file \in files_
    /\ ioctlChecks(request, argNull) # "OK"
    /\ Returns(request.name, file, ioctlChecks(request, argNull), 0)

(* ------------------------------------------------------------------ *)
(* Memory mapping                                                       *)
(* ------------------------------------------------------------------ *)

AddMapping(m, addr, index) ==
    [a \in (DOMAIN m) \cup {addr} |-> IF a = addr THEN index ELSE m[a]]

RemoveMapping(m, addr) ==
    IF DOMAIN m = {addr} THEN <<>> ELSE [a \in (DOMAIN m) \ {addr} |-> m[a]]

\* protOk: prot is PROT_READ | PROT_WRITE. addr: the address the
\* environment's mmap returns, NoFile for MAP_FAILED.
mmap(protOk, offset, length, addr) ==
    /\ Enters(NoFile)
    /\ files_ # {}
    /\ IF ~protOk
       THEN Returns("mmap", NoFile, "EINVAL", 0)
       ELSE IF sizeimage_ = 0
       THEN \* offset / sizeimage_ divides by zero
            Returns("mmap", NoFile, "SIGFPE", 0)
       ELSE LET index == offset \div sizeimage_
            IN  IF index * sizeimage_ # offset \/ length # sizeimage_
                THEN Returns("mmap", NoFile, "EINVAL", index)
                ELSE IF ~vcam_bufferFdValid(vcam_, index)
                THEN Returns("mmap", NoFile, "EINVAL", index)
                ELSE IF addr = NoFile
                THEN Returns("mmap", NoFile, "ENOMEM", index)
                ELSE /\ addr \notin DOMAIN mmaps_
                     /\ buffers_' = IF index < Len(buffers_)
                                    THEN [buffers_ EXCEPT ![index + 1].flags = @ \cup {"MAPPED"}]
                                    ELSE buffers_
                     /\ mmaps_' = AddMapping(mmaps_, addr, index)
                     /\ Ends("mmap", NoFile, "OK", index)
                     /\ UNCHANGED <<files_, refcount_, owner_, bufferCount_, currentBuf_,
                                    sizeimage_, curV4L2Format_, streamConfig_>>
                     /\ UNCHANGED <<vcam_, priority, waiting, queueOrder>>

\* When the table no longer holds the slot of the mapping,
\* buffers_[iter->second] is outside the vector: the call either goes on or,
\* with `crash`, ends in SIGSEGV.
munmap(addr, length, crash) ==
    /\ Enters(NoFile)
    /\ IF addr \notin DOMAIN mmaps_ \/ length # sizeimage_
       THEN Returns("munmap", NoFile, "EINVAL", 0)
       ELSE IF mmaps_[addr] >= Len(buffers_) /\ crash
       THEN Returns("munmap", NoFile, "SIGSEGV", 0)
       ELSE LET index == mmaps_[addr]
            IN  /\ buffers_' = IF index < Len(buffers_)
                               THEN [buffers_ EXCEPT ![index + 1].flags = @ \ {"MAPPED"}]
                               ELSE buffers_
                /\ mmaps_' = RemoveMapping(mmaps_, addr)
                /\ Ends("munmap", NoFile, "OK", index)
                /\ UNCHANGED <<files_, refcount_, owner_, bufferCount_, currentBuf_,
                               sizeimage_, curV4L2Format_, streamConfig_>>
                /\ UNCHANGED <<vcam_, priority, waiting, queueOrder>>

(* ------------------------------------------------------------------ *)
(* The backend completes a request, at its own time and in its own      *)
(* order.                                                               *)
(* ------------------------------------------------------------------ *)

requestComplete(k, status, data) ==
    /\ Alive
    /\ vcam_.isRunning_
    /\ k \in 1..Len(vcam_.pendingRequests_)
    /\ vcam_.bufferAvailableCount_ < MaxBuffers
    /\ vcam_' = vcam_requestComplete(vcam_, k, status, data)
    /\ last' = Call("requestComplete", NoFile, "OK", vcam_.pendingRequests_[k])
    /\ observe' = observe
    /\ reply' = NoReply
    /\ tried' = tried
    /\ UNCHANGED <<proxyVars, priority, waiting, queueOrder, proxyMutex_>>

(* ------------------------------------------------------------------ *)
(* Specification                                                        *)
(* ------------------------------------------------------------------ *)

\* One step of the system, with the applications' and the environment's
\* inputs drawn from the sets of `in`:
\*   files     the files the application opens
\*   prio      the values passed to S_PRIORITY
\*   fmts      the formats passed to TRY_FMT and S_FMT
\*   counts    the counts passed to REQBUFS
\*   grants    the buffer counts the backend's configure returns
\*   addrs     the addresses mmap returns
\*   status    the outcomes the backend reports for a request
\*   data      the metadata the backend reports for a request
\*   valid     whether a call's arguments (buffer type, memory type, index,
\*             offset, length, address) pass validation: {TRUE} when every
\*             call is well-formed, BOOLEAN when ill-formed calls happen too
\*   ok        the outcomes of a backend or environment call: {TRUE} when
\*             none fails, BOOLEAN when both happen
NextOf(in) ==
    \/ \E f \in in.files, ok \in in.ok, c \in in.configs :
          /\ (refcount_ # 0 => ok)
          /\ open(f, ok, c)
    \/ \E f \in in.files : close(f)
    \/ \E f \in in.files : vidioc_g_priority(f)
    \/ \E f \in in.files, p \in in.prio : vidioc_s_priority(f, p)
    \/ \E f \in in.files, t \in in.valid, a \in in.fmts : vidioc_g_fmt(f, t, a)
    \/ \E f \in in.files, t \in in.valid, a \in in.fmts : vidioc_try_fmt(f, t, a)
    \/ \E f \in in.files, t \in in.valid, a \in in.fmts, c \in in.ok, x \in in.actual :
          /\ (~t => c)
          /\ vidioc_s_fmt(f, t, a, c, x)
    \/ \E f \in in.files, t \in in.valid, n \in in.counts, c \in in.ok,
          g \in in.grants, a \in in.ok :
          /\ (~t \/ n = 0 => c)
          /\ (~t \/ n = 0 \/ ~c => a /\ \A g2 \in in.grants : g <= g2)
          /\ \E x \in in.actual : vidioc_reqbufs(f, t, n, c, g, a, x)
    \/ \E f \in in.files, t \in in.valid, i \in 0..MaxBuffers :
          /\ (i >= bufferCount_ => t /\ FALSE \in in.valid)
          /\ \E c \in BOOLEAN :
                /\ (c => i < bufferCount_ /\ i >= Len(buffers_))
                /\ vidioc_querybuf(f, t, i, c)
    \/ \E f \in in.files, t \in in.valid, i \in 0..MaxBuffers, b \in in.ok, s \in BOOLEAN :
          /\ (~t => b)
          /\ (i >= bufferCount_ => t /\ FALSE \in in.valid)
          /\ (i < Len(buffers_) \/ i >= bufferCount_ => s)
          /\ vidioc_qbuf(f, t, i, b, s)
    \/ \E f \in in.files, t \in in.valid, i \in {0, MaxBuffers} :
          /\ (i >= bufferCount_ => t /\ FALSE \in in.valid)
          /\ \E c \in BOOLEAN : (c => currentBuf_ >= Len(buffers_)) /\ vidioc_dqbuf(f, t, i, c)
    \/ \E f \in in.files, c \in BOOLEAN :
          /\ (c => currentBuf_ >= Len(buffers_))
          /\ dqbuf_wake(f, c)
    \/ \E f \in in.files, t \in in.valid, b \in in.ok :
          /\ (~t => b)
          /\ vidioc_streamon(f, t, b)
    \/ \E f \in in.files, t \in in.valid, b \in in.ok :
          /\ (~t => b)
          /\ vidioc_streamoff(f, t, b)
    \/ \E p \in in.valid, i \in 0..MaxBuffers, d \in {0, 1}, l \in {0, 1},
          a \in in.addrs \cup {NoFile} :
          /\ (~p \/ d = 1 \/ l = 1 => i = 0 /\ a = NoFile)
          /\ (d = 1 \/ l = 1 => FALSE \in in.valid)
          /\ (sizeimage_ # 0 /\ ~vcam_bufferFdValid(vcam_, i) => FALSE \in in.valid)
          /\ (a = NoFile => i = 0 /\ (p /\ d = 0 /\ l = 0 => FALSE \in in.ok))
          /\ mmap(p, i * sizeimage_ + d, sizeimage_ + l, a)
    \/ \E a \in in.addrs, l \in {0, 1} :
          /\ (l = 1 \/ a \notin DOMAIN mmaps_ => FALSE \in in.valid)
          /\ \E c \in BOOLEAN :
                /\ (c => l = 0 /\ a \in DOMAIN mmaps_ /\ mmaps_[a] >= Len(buffers_))
                /\ munmap(a, sizeimage_ + l, c)
    \/ \E k \in 1..MaxBuffers, st \in in.status, d \in in.data :
          requestComplete(k, st, d)
    \/ \E f \in in.files, r \in Requests, null \in BOOLEAN : ioctl(f, r, null)

\* A thread that makes a call on `file` takes the lock and is about to run
\* the handler.
lock(file) ==
    /\ Alive
    /\ file \in files_
    /\ proxyMutex_ = LockFree
    /\ proxyMutex_' = HeldBy(file)
    /\ UNCHANGED <<proxyVars, vcam_, priority, waiting, observe, last, reply, tried,
                   queueOrder>>

\* The steps of NextOf, and the steps in which a thread has taken the lock
\* and has not yet run its handler.
NextLocked(in) ==
    \/ NextOf(in)
    \/ \E f \in in.files : lock(f)

AllInputs ==
    [files |-> Files, prio |-> PriorityArgs, fmts |-> FormatArgs,
     counts |-> 0..MaxBuffers, grants |-> 1..MaxBuffers, addrs |-> Addrs,
     status |-> {"FrameSuccess", "FrameError"}, valid |-> BOOLEAN, ok |-> BOOLEAN,
     configs |-> {DefaultConfig, RawConfig},
     actual |-> {AsAsked, [pixelFormat |-> "NV12", size |-> Size(4, 2)]},
     data |-> {NoData, LateData}]

Operations ==
    {"open", "close", "g_priority", "s_priority", "g_fmt", "try_fmt", "s_fmt",
     "reqbufs", "querybuf", "qbuf", "dqbuf", "dqbuf_wait", "streamon",
     "streamoff", "mmap", "munmap", "requestComplete"}

Init == InitOf(Operations)

Next == NextOf(AllInputs)

Spec == Init /\ [][Next]_vars

(* ------------------------------------------------------------------ *)
(* Scenarios: the system under a narrower environment, with the calls   *)
(* of the listed operations recorded in `last`.                         *)
(* ------------------------------------------------------------------ *)

\* The format the applications of the scenarios set.
SmallFormat == [pixelformat |-> "V4L2_PIX_FMT_YUYV", width |-> 2, height |-> 2]

\* The calls that need ownership of the device.
OwnershipCalls == {"s_fmt", "reqbufs", "qbuf", "dqbuf", "streamon", "streamoff"}

\* Two applications with one buffer between them, well-formed calls only, a
\* backend that may fail.
TwoFiles ==
    [files |-> Files, prio |-> {V4L2_PRIORITY_UNSET, V4L2_PRIORITY_RECORD},
     fmts |-> {SmallFormat}, counts |-> 0..1, grants |-> {1}, addrs |-> {"m1"},
     status |-> {"FrameSuccess"}, valid |-> {TRUE}, ok |-> BOOLEAN,
     configs |-> {DefaultConfig}, actual |-> {AsAsked},
     data |-> {NoData}]

\* Arbitration between two files: every call that needs ownership is recorded.
SpecArbitration == InitOf(OwnershipCalls) /\ [][NextOf(TwoFiles)]_vars

\* The life of the ownership: the calls that take it and give it up are
\* recorded.
SpecOwnership == InitOf({"s_fmt", "reqbufs", "close"}) /\ [][NextOf(TwoFiles)]_vars

\* Priorities: S_PRIORITY with every value, recorded.
SpecPriority ==
    InitOf({"s_priority"}) /\ [][NextOf([TwoFiles EXCEPT !.prio = PriorityArgs])]_vars

\* One application that queues and dequeues MaxBuffers buffers; the backend
\* completes the requests in any order and never fails.
OneFile ==
    [files |-> {"fA"}, prio |-> {V4L2_PRIORITY_RECORD}, fmts |-> {SmallFormat},
     counts |-> {0, MaxBuffers}, grants |-> {MaxBuffers}, addrs |-> {"m1"},
     status |-> {"FrameSuccess"}, valid |-> {TRUE}, ok |-> {TRUE},
     configs |-> {DefaultConfig}, actual |-> {AsAsked},
     data |-> {NoData}]

SpecQueue == InitOf({"dqbuf"}) /\ [][NextOf(OneFile)]_vars

(* ------------------------------------------------------------------ *)
(* Vocabulary of the properties                                         *)
(* ------------------------------------------------------------------ *)

\* An open file has a higher priority than `file`.
Outranked(file) == \E g \in files_ : priority[g] > priority[file]

\* The call that ends in this step: its operation is one of `ops`.
Ended(ops) == last'.op \in ops

\* The call that ends in this step takes ownership when the device is free:
\* S_FMT, or REQBUFS with a count above zero.
EndedAcquiring ==
    last'.op = "s_fmt" \/ (last'.op = "reqbufs" /\ last'.n > 0)

\* No mapping exists and the stream does not run.
Idle == mmaps_ = <<>> /\ ~vcam_.isRunning_

(* ------------------------------------------------------------------ *)
(* Buffer queue                                                         *)
(* ------------------------------------------------------------------ *)

\* C1: every successful dequeue returns the index that was queued first among
\* those not yet dequeued, so the dequeued indices come in the order the
\* buffers were queued, whatever the order of the completions.
C1_DequeueOrderIsQueueOrder ==
    [][(Ended({"dqbuf"}) /\ last'.ret = "OK")
          => (queueOrder # <<>> /\ last'.n = Head(queueOrder))]_vars

\* C2: every successful dequeue returns the slot at the cursor, that slot is
\* queued and done once the completions are drained, the dequeue clears
\* queued and done on it and advances the cursor by one modulo the count.
C2_DequeueReturnsDoneSlot ==
    [][(Ended({"dqbuf"}) /\ last'.ret = "OK")
          => /\ last'.n = currentBuf_
             /\ currentBuf_ < Len(buffers_)
             /\ {"QUEUED", "DONE"} \subseteq Drained[currentBuf_ + 1].flags
             /\ Len(buffers_') = Len(buffers_)
             /\ buffers_'[currentBuf_ + 1].flags \cap {"QUEUED", "DONE"} = {}
             /\ bufferCount_ > 0
             /\ currentBuf_' = (currentBuf_ + 1) % bufferCount_]_vars

(* ------------------------------------------------------------------ *)
(* Ownership and priority                                               *)
(* ------------------------------------------------------------------ *)

\* The slot a QBUF names is not queued already (a QBUF of a queued slot is
\* ill-formed).
NotQueuedYet(index) ==
    index < Len(buffers_) /\ "QUEUED" \notin buffers_[index + 1].flags

\* C3: while a file owns the device, every well-formed call that needs
\* ownership and comes from another open file fails with EBUSY and changes
\* nothing of the device.
C3_OthersGetBusy ==
    [][(/\ owner_ # NoFile
        /\ Ended(OwnershipCalls)
        /\ last'.file \in files_ \ {owner_}
        /\ (last'.op = "qbuf" => NotQueuedYet(last'.n)))
          => (last'.ret = "EBUSY" /\ UNCHANGED devVars)]_vars

\* C4: the device passes from no owner to owner h only by an S_FMT or a
\* REQBUFS(count > 0) of h, made when no open file outranks h; every such
\* call that succeeds leaves its file the owner; the ownership never passes
\* from one file to another in one step.
C4_AcquiredBySetFormatOrAlloc ==
    [][/\ (owner_ = NoFile /\ owner_' # NoFile)
            => /\ EndedAcquiring
               /\ last'.file = owner_'
               /\ owner_' \in files_
               /\ ~Outranked(owner_')
       /\ (EndedAcquiring /\ last'.ret = "OK") => owner_' = last'.file
       /\ (owner_ # NoFile /\ owner_' # NoFile) => owner_' = owner_]_vars

\* A file has taken a free device with REQBUFS while another file was open.
C4_Acquired ==
    /\ last.op = "reqbufs" /\ last.n > 0 /\ last.ret = "OK"
    /\ owner_ = last.file
    /\ files_ = Files

\* C5, as stated: while the device has no owner, any well-formed call that
\* needs ownership, from a file that no open file outranks, makes the file
\* the owner and does not fail with EBUSY (a call that fails for another
\* reason, a backend that refuses or a device without buffers, is left aside).
C5_AnyFirstCallOwns ==
    [][(/\ owner_ = NoFile
        /\ Ended(OwnershipCalls)
        /\ last'.file \in files_
        /\ ~Outranked(last'.file)
        /\ last'.ret \in {"OK", "EBUSY"})
          => (owner_' = last'.file /\ last'.ret # "EBUSY")]_vars

\* C5, amended: while the device has no owner, an S_FMT or a REQBUFS(count > 0)
\* from a file that no open file outranks does not fail with EBUSY, and makes
\* the file the owner when it succeeds; no other call makes a file the owner.
C5_SetFormatOrAllocOwns ==
    [][/\ (/\ owner_ = NoFile
           /\ EndedAcquiring
           /\ last'.file \in files_
           /\ ~Outranked(last'.file))
             => /\ last'.ret # "EBUSY"
                /\ last'.ret = "OK" => owner_' = last'.file
       /\ (owner_ = NoFile /\ Ended(OwnershipCalls) /\ ~EndedAcquiring)
             => owner_' = NoFile]_vars

\* A file that nothing outranks has taken a free device with S_FMT while
\* the other file was open.
C5_SetFormatOwns ==
    /\ last.op = "s_fmt" /\ last.ret = "OK"
    /\ owner_ = last.file /\ ~Outranked(last.file)
    /\ files_ = Files

\* C6: the owner stops being the owner only by its own close or by its own
\* successful REQBUFS(0), and the device then has no owner.
C6_ReleasedByOwnerOnly ==
    [][(owner_ # NoFile /\ owner_' # owner_)
          => /\ owner_' = NoFile
             /\ last'.file = owner_
             /\ \/ last'.op = "close"
                \/ (last'.op = "reqbufs" /\ last'.n = 0 /\ last'.ret = "OK")]_vars

\* The owner has closed and left its buffers behind on a device without
\* owner, with the other file still open.
C6_OwnerClosed ==
    /\ last.op = "close"
    /\ owner_ = NoFile /\ buffers_ # <<>>
    /\ files_ # {}

\* C7, as stated: no call that needs ownership succeeds for a file that an
\* open file outranks.
C7_NoSuccessWhenOutranked ==
    [][(Ended(OwnershipCalls) /\ last'.ret = "OK" /\ last'.file \in files_)
          => ~Outranked(last'.file)]_vars

\* C7, amended: no S_FMT, REQBUFS, STREAMON or STREAMOFF succeeds for a file
\* that an open file outranks.
C7_NoConfigureWhenOutranked ==
    [][(/\ Ended({"s_fmt", "reqbufs", "streamon", "streamoff"})
        /\ last'.ret = "OK"
        /\ last'.file \in files_)
          => ~Outranked(last'.file)]_vars

\* The owner, outranked by the other file, has been refused a STREAMON.
C7_OwnerRefused ==
    /\ last.op = "streamon" /\ last.ret = "EBUSY"
    /\ owner_ = last.file
    /\ bufferCount_ > 0
    /\ Outranked(last.file)

\* C8: an S_PRIORITY with a value in the valid range succeeds and sets the
\* file's priority to the value if and only if no open file outranks the
\* file; otherwise it fails with EBUSY and no priority changes.
C8_SetPriorityIffNotOutranked ==
    [][(Ended({"s_priority"}) /\ last'.n <= V4L2_PRIORITY_RECORD)
          => IF Outranked(last'.file)
             THEN last'.ret = "EBUSY" /\ priority' = priority
             ELSE /\ last'.ret = "OK"
                  /\ priority' = [priority EXCEPT ![last'.file] = last'.n]]_vars

\* An outranked file has been refused a valid priority.
C8_Refused ==
    /\ last.op = "s_priority" /\ last.ret = "EBUSY"
    /\ last.n <= V4L2_PRIORITY_RECORD
    /\ Outranked(last.file)

\* C9, as stated: REQBUFS(0) succeeds if and only if no mapping exists and the
\* stream does not run, and fails with EBUSY otherwise; when it succeeds no
\* buffer is left and the caller, if it was the owner, is the owner no more.
C9_FreeIffIdle ==
    [][(Ended({"reqbufs"}) /\ last'.n = 0)
          => IF Idle
             THEN /\ last'.ret = "OK"
                  /\ bufferCount_' = 0 /\ buffers_' = <<>>
                  /\ owner_ = last'.file => owner_' = NoFile
             ELSE last'.ret = "EBUSY"]_vars

\* C9, amended: REQBUFS(0) succeeds if and only if no mapping exists, the
\* stream does not run, no open file outranks the caller and no other file
\* owns the device; it fails with EBUSY otherwise; when it succeeds no buffer
\* is left and the caller, if it was the owner, is the owner no more.
C9_FreeIffIdleAndAllowed ==
    [][(Ended({"reqbufs"}) /\ last'.n = 0)
          => IF Idle /\ ~Outranked(last'.file) /\ owner_ \in {NoFile, last'.file}
             THEN /\ last'.ret = "OK"
                  /\ bufferCount_' = 0 /\ buffers_' = <<>>
                  /\ owner_ = last'.file => owner_' = NoFile
             ELSE last'.ret = "EBUSY" /\ UNCHANGED devVars]_vars

\* The owner, which nothing outranks, has been refused a REQBUFS(0) because a
\* buffer is mapped.
C9_RefusedWhileMapped ==
    /\ last.op = "reqbufs" /\ last.n = 0 /\ last.ret = "EBUSY"
    /\ owner_ = last.file /\ ~Outranked(last.file)
    /\ mmaps_ # <<>> /\ ~vcam_.isRunning_

\* C10: while a mapping exists or the stream runs, no REQBUFS, whatever its
\* count, frees or replaces the slot table.
C10_TableKeptWhileInUse ==
    [][(Ended({"reqbufs"}) /\ ~Idle)
          => /\ UNCHANGED <<buffers_, bufferCount_>>
             /\ vcam_'.allocated_ = vcam_.allocated_]_vars

(* ------------------------------------------------------------------ *)
(* Buffer table                                                         *)
(* ------------------------------------------------------------------ *)

\* C11: in every reachable state a buffer count other than zero is the
\* number of slots of the table, also after a REQBUFS in which the backend's
\* configure or allocBuffers failed.
C11_CountIsTableSize ==
    bufferCount_ # 0 => Len(buffers_) = bufferCount_

(* ------------------------------------------------------------------ *)
(* Blocking dequeue                                                     *)
(* ------------------------------------------------------------------ *)

\* The dequeue scenario with the scheduling the condition variable gives: a
\* thread suspended in waitForBufferAvailable whose wait is over (a completion
\* is available, or the stream does not run) and stays over does wake.
SpecWake ==
    /\ InitOf({"dqbuf"})
    /\ [][NextOf(OneFile)]_vars
    /\ \A f \in Files : WF_vars(dqbuf_wake(f, FALSE))

\* The dequeue of `file` has ended with `ret`.
DequeueEnded(file, ret) ==
    /\ file \notin waiting
    /\ last.op = "dqbuf" /\ last.file = file /\ last.ret = ret

\* C12: a dequeue that is suspended while the stream is stopped is woken in
\* the end and returns EINVAL.
C12_StopWakesDequeue ==
    \A f \in Files :
        (f \in waiting /\ ~vcam_.isRunning_) ~> DequeueEnded(f, "EINVAL")

(* ------------------------------------------------------------------ *)
(* The lock                                                             *)
(* ------------------------------------------------------------------ *)

\* Two applications whose threads take the lock in a step of their own
\* before they run a handler; one buffer, no fault.
Threads ==
    [files |-> Files, prio |-> {V4L2_PRIORITY_UNSET}, fmts |-> {SmallFormat},
     counts |-> 0..1, grants |-> {1}, addrs |-> {"m1"},
     status |-> {"FrameSuccess"}, valid |-> {TRUE}, ok |-> {TRUE},
     configs |-> {DefaultConfig}, actual |-> {AsAsked},
     data |-> {NoData}]

SpecLock == InitOf(Operations) /\ [][NextLocked(Threads)]_vars

\* What the calls on the proxy change, the backend's own thread apart.
lockedVars == <<proxyVars, priority, waiting>>

\* C13: the thread of a suspended dequeue does not hold the lock; while a
\* thread holds the lock, a step that changes the proxy's state, the
\* priorities or the set of suspended dequeues is a step of a call on the
\* holder's file, so no other call runs and no suspended dequeue goes on
\* before it has the lock.
C13_LockSerializes ==
    /\ [](\A f \in waiting : proxyMutex_ # HeldInWait(f))
    /\ [][(proxyMutex_ # LockFree /\ lockedVars' # lockedVars)
            => (proxyMutex_ = HeldBy(last'.file) /\ proxyMutex_' = LockFree)]_vars

\* A thread has taken the lock and run a STREAMOFF to its end while the
\* dequeue of another thread on the same file was suspended.
C13_StoppedWhileSuspended ==
    /\ last.op = "streamoff" /\ last.ret = "OK"
    /\ last.file \in waiting
    /\ proxyMutex_ = LockFree
    /\ ~vcam_.isRunning_

(* ------------------------------------------------------------------ *)
(* Close during a dequeue                                               *)
(* ------------------------------------------------------------------ *)

\* C14: a dequeue that was suspended when its file was closed does not end
\* in success when it goes on (the success path is the one that reads the
\* file object again, with file->efd()).
C14_ClosedFileNeverDequeues ==
    [][\A f \in Files :
          (f \in waiting /\ f \notin files_ /\ f \notin waiting')
             => last'.ret # "OK"]_vars

(* ------------------------------------------------------------------ *)
(* Non-blocking dequeue                                                 *)
(* ------------------------------------------------------------------ *)

\* Two applications, the second with O_NONBLOCK, that queue and dequeue
\* MaxBuffers buffers; no fault.
Streaming ==
    [files |-> Files, prio |-> {V4L2_PRIORITY_UNSET}, fmts |-> {SmallFormat},
     counts |-> {0, MaxBuffers}, grants |-> {MaxBuffers}, addrs |-> {"m1"},
     status |-> {"FrameSuccess"}, valid |-> {TRUE}, ok |-> {TRUE},
     configs |-> {DefaultConfig}, actual |-> {AsAsked},
     data |-> {NoData}]

\* The dequeues and the stops are recorded.
SpecStreaming == InitOf({"dqbuf", "streamoff"}) /\ [][NextOf(Streaming)]_vars

\* The call that ends in this step is a DQBUF on a file with O_NONBLOCK that
\* owns the device, made while the stream runs.
EndedNonBlockingDequeue ==
    /\ Ended({"dqbuf"})
    /\ nonBlocking(last'.file)
    /\ hasOwnership(last'.file)
    /\ vcam_.isRunning_

\* Slot `index` is done once the completions are drained.
Done(index) ==
    index < Len(buffers_) /\ "DONE" \in Drained[index + 1].flags

\* C15: a non-blocking dequeue made when no slot is done returns EAGAIN
\* without a change of the slots, the cursor or the suspended dequeues; made
\* when the slot at the cursor is done it succeeds, returns that slot and
\* leaves it neither queued nor done.
C15_NonBlockingDequeue ==
    [][EndedNonBlockingDequeue
          => /\ (\A i \in 0..MaxBuffers : ~Done(i))
                   => /\ last'.ret = "EAGAIN"
                      /\ UNCHANGED <<buffers_, currentBuf_, waiting>>
             /\ Done(currentBuf_)
                   => /\ last'.ret = "OK" /\ last'.n = currentBuf_
                      /\ buffers_'[currentBuf_ + 1].flags \cap {"QUEUED", "DONE"} = {}]_vars

(* ------------------------------------------------------------------ *)
(* Stop                                                                 *)
(* ------------------------------------------------------------------ *)

\* C16: a successful STREAMOFF leaves the stream stopped and no slot queued
\* or done, whatever the flags were; while the stream does not run no
\* dequeue suspends and every dequeue that ends fails and changes neither a
\* slot nor the cursor, with EINVAL when its file owns the device.
C16_StopThenDequeueFails ==
    [][/\ (Ended({"streamoff"}) /\ last'.ret = "OK")
            => /\ ~vcam_'.isRunning_
               /\ Len(buffers_') = Len(buffers_)
               /\ \A i \in 1..Len(buffers_') :
                     /\ buffers_'[i].flags \cap {"QUEUED", "DONE"} = {}
                     /\ buffers_'[i].flags = buffers_[i].flags \ {"QUEUED", "DONE"}
       /\ ~vcam_.isRunning_
            => /\ waiting' \subseteq waiting
               /\ Ended({"dqbuf"})
                    => /\ last'.ret \in {"EINVAL", "EBUSY"}
                       /\ hasOwnership(last'.file) => last'.ret = "EINVAL"
                       /\ UNCHANGED <<buffers_, currentBuf_>>]_vars

\* After a stop, the owner, a file without O_NONBLOCK that has buffers, has
\* made a DQBUF with a valid index and got EINVAL, and is not suspended.
C16_DequeueAfterStop ==
    /\ last.op = "dqbuf" /\ last.ret = "EINVAL"
    /\ hasOwnership(last.file) /\ ~nonBlocking(last.file)
    /\ bufferCount_ = MaxBuffers
    /\ ~vcam_.isRunning_
    /\ waiting = {}
    /\ currentBuf_ > 0

\* C17: a STREAMOFF of a file that does not own the device succeeds only while
\* no stream runs, and then changes neither a slot nor the backend.
C17_StopOfNonOwnerIsNoOp ==
    [][(Ended({"streamoff"}) /\ last'.ret = "OK" /\ ~hasOwnership(last'.file))
          => /\ ~vcam_.isRunning_
             /\ UNCHANGED <<buffers_, vcam_>>]_vars

(* ------------------------------------------------------------------ *)
(* Start                                                                *)
(* ------------------------------------------------------------------ *)

\* One application and MaxBuffers buffers, with a backend that may fail.
Restarts == [OneFile EXCEPT !.ok = BOOLEAN, !.prio = {V4L2_PRIORITY_UNSET}]

\* The starts are recorded.
SpecStart == InitOf({"streamon"}) /\ [][NextOf(Restarts)]_vars

\* C18: a STREAMON with a valid type by the owner, when no file outranks it:
\* without buffers it fails with EINVAL; while the stream runs it succeeds and
\* changes neither the cursor, the slots nor the backend; otherwise it sets
\* the cursor to 0 and asks the backend to start, succeeds when the backend
\* does, and the stream then runs.
C18_Start ==
    [][(Ended({"streamon"}) /\ hasOwnership(last'.file) /\ ~Outranked(last'.file))
          => IF bufferCount_ = 0
             THEN /\ last'.ret = "EINVAL"
                  /\ UNCHANGED <<currentBuf_, buffers_, vcam_>>
             ELSE IF vcam_.isRunning_
             THEN /\ last'.ret = "OK"
                  /\ UNCHANGED <<currentBuf_, buffers_, vcam_>>
             ELSE /\ currentBuf_' = 0
                  /\ buffers_' = buffers_
                  /\ last'.ret \in {"OK", "EBACKEND"}
                  /\ last'.ret = "OK" => vcam_' = [vcam_ EXCEPT !.isRunning_ = TRUE]
                  /\ last'.ret # "OK" => vcam_' = vcam_]_vars

\* The owner has started the stream with a buffer queued: the stream runs
\* and the cursor is at slot 0.
C18_Started ==
    /\ last.op = "streamon" /\ last.ret = "OK"
    /\ hasOwnership(last.file)
    /\ vcam_.isRunning_
    /\ currentBuf_ = 0
    /\ \E i \in 1..Len(buffers_) : "QUEUED" \in buffers_[i].flags

(* ------------------------------------------------------------------ *)
(* Failed calls                                                         *)
(* ------------------------------------------------------------------ *)

\* C19: a call that returns an error leaves the format, the frame size, the
\* buffer count, the slot table, the mappings, the owner, the cursor and the
\* priority of every file as they were.
C19_ErrorChangesNothing ==
    [][(last'.op # "other" /\ last'.ret # "OK")
          => UNCHANGED <<curV4L2Format_, sizeimage_, bufferCount_, buffers_, mmaps_,
                         owner_, currentBuf_, priority>>]_vars

(* ------------------------------------------------------------------ *)
(* Allocation                                                           *)
(* ------------------------------------------------------------------ *)

\* One application that asks for one buffer or for none; the backend grants
\* one or MaxBuffers.
Grants ==
    [OneFile EXCEPT !.counts = {0, 1}, !.grants = {1, MaxBuffers},
                    !.prio = {V4L2_PRIORITY_UNSET}]

\* The allocations are recorded.
SpecAlloc == InitOf({"reqbufs"}) /\ [][NextOf(Grants)]_vars

\* C20: after a successful REQBUFS with a count above zero the buffer count
\* is the number of buffers the backend holds, whatever the count asked for,
\* the slot table has that size, and slot i has index i, the length of the
\* current frame size, the offset i times the frame size and no flag.
C20_AllocBuildsTable ==
    [][(Ended({"reqbufs"}) /\ last'.ret = "OK" /\ last'.n > 0)
          => /\ bufferCount_' = vcam_'.allocated_
             /\ Len(buffers_') = bufferCount_'
             /\ curV4L2Format_'.sizeimage = sizeimage_'
             /\ \A i \in 0..(bufferCount_' - 1) :
                   /\ buffers_'[i + 1].index = i
                   /\ buffers_'[i + 1].length = sizeimage_'
                   /\ buffers_'[i + 1].offset = i * sizeimage_'
                   /\ buffers_'[i + 1].flags = {}]_vars

\* A REQBUFS for one buffer has succeeded, the backend granted MaxBuffers,
\* and a mapping of the slots the call replaced is still there.
C20_GrantedMore ==
    /\ last.op = "reqbufs" /\ last.ret = "OK" /\ last.n = 1
    /\ bufferCount_ = MaxBuffers
    /\ Len(buffers_) = MaxBuffers
    /\ mmaps_ # <<>>

\* One application on a backend whose configuration at open may be a raw
\* format, and which may refuse a configuration or an allocation.
RawBackend ==
    [OneFile EXCEPT !.configs = {DefaultConfig, RawConfig}, !.ok = BOOLEAN,
                    !.counts = {0, 1}, !.grants = {1},
                    !.prio = {V4L2_PRIORITY_UNSET}]

\* The allocations on such a backend are recorded.
SpecRaw == InitOf({"reqbufs"}) /\ [][NextOf(RawBackend)]_vars

\* C21: a REQBUFS with a count above zero that the backend's configure
\* refuses returns EINVAL, leaves no buffer and the owner as it was; and no
\* REQBUFS with a count above zero succeeds with a frame size of zero.
C21_AllocFailsOnZeroSize ==
    [][(Ended({"reqbufs"}) /\ last'.n > 0)
          => /\ last'.ret = "EINVAL"
                  => /\ owner_' = owner_
                     /\ vcam_'.allocated_ = 0
                     /\ buffers_' = <<>>
             /\ last'.ret = "OK" => sizeimage_' # 0]_vars

(* ------------------------------------------------------------------ *)
(* Dispatch                                                             *)
(* ------------------------------------------------------------------ *)

\* The ioctls that do not reach a handler are recorded.
SpecDispatch ==
    InitOf({r.name : r \in Requests}) /\ [][NextOf(RawBackend)]_vars

\* C22: an ioctl whose request code is outside the supported set fails with
\* ENOTTY, whatever its argument, and changes nothing.
C22_UnsupportedIsENOTTY ==
    [][(last'.op \in {r.name : r \in Requests} \ supportedIoctls_)
          => /\ last'.ret = "ENOTTY"
             /\ UNCHANGED devVars]_vars

(* ------------------------------------------------------------------ *)
(* Formats                                                              *)
(* ------------------------------------------------------------------ *)

\* A size the asked encoding does not have, and an encoding outside the
\* format table.
OddFormats ==
    { [pixelformat |-> "V4L2_PIX_FMT_NV12", width |-> 2, height |-> 2],
      [pixelformat |-> "V4L2_PIX_FMT_GREY", width |-> 8, height |-> 8] }

\* Two applications that negotiate formats; the TRY_FMT calls are recorded.
SpecTry ==
    InitOf({"try_fmt"})
    /\ [][NextOf([TwoFiles EXCEPT !.fmts = OddFormats, !.ok = {TRUE}])]_vars

\* C23: a TRY_FMT with a valid type succeeds whoever owns the device and
\* whatever the priorities are, changes nothing of the device, and what it
\* leaves in *arg for a given *arg is the same at every call.
C23_TryFormatIsPure ==
    /\ [](\A p, q \in tried : p[1] = q[1] => p[2] = q[2])
    /\ [][Ended({"try_fmt"}) => (last'.ret = "OK" /\ UNCHANGED devVars)]_vars

\* A file that does not own the device and is outranked has tried a format;
\* both formats have been tried, and the device's format is another one than
\* the one this call left.
C23_TriedByOutranked ==
    /\ last.op = "try_fmt" /\ last.ret = "OK"
    /\ owner_ \notin {NoFile, last.file}
    /\ Outranked(last.file)
    /\ {p[1] : p \in tried} = OddFormats
    /\ reply.left.pixelformat # curV4L2Format_.pixelformat

\* What an application puts in *arg: an advertised encoding and size, a size
\* the encoding does not have, an encoding outside the format table; each
\* with a stride and a frame size of its own making.
CallerFormats ==
    { [pixelformat |-> "V4L2_PIX_FMT_YUYV", width |-> 2, height |-> 2,
       bytesperline |-> 1, sizeimage |-> 1],
      [pixelformat |-> "V4L2_PIX_FMT_NV12", width |-> 2, height |-> 2,
       bytesperline |-> 0, sizeimage |-> 0],
      [pixelformat |-> "V4L2_PIX_FMT_GREY", width |-> 8, height |-> 8,
       bytesperline |-> 64, sizeimage |-> 64] }

\* One application that negotiates formats; the format calls are recorded.
Negotiation ==
    [OneFile EXCEPT !.fmts = CallerFormats, !.counts = {0, 1}, !.grants = {1},
                    !.prio = {V4L2_PRIORITY_UNSET}]

SpecFormat == InitOf({"g_fmt", "try_fmt", "s_fmt"}) /\ [][NextOf(Negotiation)]_vars

\* The encodings the backend advertises, as V4L2 codes.
Advertised == {drmToV4L2(BackendPixelFormats[i]) : i \in 1..Len(BackendPixelFormats)}

\* The sizes the backend advertises for a V4L2 encoding.
SizesOf(pixelformat) == BackendSizes(v4l2ToDrm(pixelformat))

\* A TRY_FMT or S_FMT has negotiated in this step.
Negotiated == Ended({"try_fmt", "s_fmt"}) /\ last'.ret = "OK"

\* C24: the encoding TRY_FMT and S_FMT leave is the asked one when the
\* backend advertises it and the first advertised one otherwise; the size is
\* the asked one when the backend advertises it for that encoding and the
\* first size of that encoding otherwise; the pair is an advertised one.
C24_Negotiation ==
    [][Negotiated
          => /\ reply'.left.pixelformat =
                   IF reply'.given.pixelformat \in Advertised
                   THEN reply'.given.pixelformat
                   ELSE drmToV4L2(BackendPixelFormats[1])
             /\ Size(reply'.left.width, reply'.left.height) =
                   IF Size(reply'.given.width, reply'.given.height)
                         \in SeqRange(SizesOf(reply'.left.pixelformat))
                   THEN Size(reply'.given.width, reply'.given.height)
                   ELSE SizesOf(reply'.left.pixelformat)[1]
             /\ reply'.left.pixelformat \in Advertised
             /\ Size(reply'.left.width, reply'.left.height)
                   \in SeqRange(SizesOf(reply'.left.pixelformat))]_vars

\* S_FMT was asked an advertised encoding with a size the encoding does not
\* have, and left the encoding with its first size.
C24_SizeReplaced ==
    /\ last.op = "s_fmt" /\ last.ret = "OK"
    /\ reply.given.pixelformat = "V4L2_PIX_FMT_NV12"
    /\ reply.left.pixelformat = "V4L2_PIX_FMT_NV12"
    /\ reply.left.width # reply.given.width

\* Two applications that set and read the format, on a backend that may
\* adjust the configuration it is asked for to another one it advertises.
Adjusting ==
    [TwoFiles EXCEPT !.fmts = OddFormats, !.ok = {TRUE},
                     !.actual = {AsAsked, [pixelFormat |-> "YUYV", size |-> Size(2, 2)]}]

\* The S_FMT and G_FMT calls are recorded.
SpecSetGet == InitOf({"s_fmt", "g_fmt"}) /\ [][NextOf(Adjusting)]_vars

\* C25: the format a successful S_FMT leaves in *arg is the format of the
\* device, its frame size is the one mmap and DQBUF use, and a successful
\* G_FMT of any file leaves the format of the device in *arg.
C25_SetFormatReturnsCurrent ==
    /\ [](files_ # {} => sizeimage_ = curV4L2Format_.sizeimage)
    /\ [][(Ended({"s_fmt"}) /\ last'.ret = "OK")
             => /\ reply'.left = curV4L2Format_'
                /\ reply'.left.sizeimage = sizeimage_']_vars
    /\ [][(Ended({"g_fmt"}) /\ last'.ret = "OK")
             => /\ reply'.left = curV4L2Format_
                /\ UNCHANGED devVars]_vars

\* The entry of the static format table for a V4L2 encoding.
InfoOf(pixelformat) == pixelFormatInfo[InfoByV4L2(pixelformat)]

\* Bits per pixel of plane n of an entry, after subsampling; 0 for a plane
\* the encoding does not have.
PlaneBits(info, n) ==
    IF n > info.numPlanes THEN 0
    ELSE (info.planes[n].bitsPerPixel \div info.planes[n].hSubSampling)
            \div info.planes[n].vSubSampling

\* A format call has succeeded in this step.
FormatReturned == Ended({"g_fmt", "try_fmt", "s_fmt"}) /\ last'.ret = "OK"

\* C26: the stride G_FMT, TRY_FMT and S_FMT leave in *arg is the bytes per
\* pixel of the first plane of the encoding they leave times the width they
\* leave, and the frame size is width times height times the sum over the
\* planes of bitsPerPixel / hSubSampling / vSubSampling, divided by 8,
\* whatever stride and frame size *arg came with; 640x480 at 16 bits per
\* pixel has a frame size of 614400.
C26_LayoutFromTable ==
    /\ [](imageSize("V4L2_PIX_FMT_YUYV", 640, 480) = 614400)
    /\ [][FormatReturned
             => /\ reply'.left.bytesperline =
                      (InfoOf(reply'.left.pixelformat).planes[1].bitsPerPixel \div 8)
                         * reply'.left.width
                /\ reply'.left.sizeimage =
                      (reply'.left.width * reply'.left.height
                         * (PlaneBits(InfoOf(reply'.left.pixelformat), 1)
                            + PlaneBits(InfoOf(reply'.left.pixelformat), 2)
                            + PlaneBits(InfoOf(reply'.left.pixelformat), 3))) \div 8]_vars

\* TRY_FMT was given an encoding of two planes with a stride and a frame
\* size of 0, and left the stride and the frame size of the table.
C26_StrideReplaced ==
    /\ last.op = "try_fmt" /\ last.ret = "OK"
    /\ reply.left.pixelformat = "V4L2_PIX_FMT_NV12"
    /\ reply.given.bytesperline # reply.left.bytesperline
    /\ reply.given.sizeimage # reply.left.sizeimage
    /\ reply.left.sizeimage = 12

(* ------------------------------------------------------------------ *)
(* Queue                                                                *)
(* ------------------------------------------------------------------ *)

\* One application and one buffer; calls with an index out of range and with
\* a wrong type, and a backend that may refuse.
Queueing ==
    [OneFile EXCEPT !.valid = BOOLEAN, !.ok = BOOLEAN, !.counts = {0, 1},
                    !.grants = {1}, !.prio = {V4L2_PRIORITY_UNSET}]

\* The QBUF calls are recorded.
SpecQbuf == InitOf({"qbuf"}) /\ [][NextOf(Queueing)]_vars

\* Slot `index` of the table is queued.
Queued(bufs, index) == index < Len(bufs) /\ "QUEUED" \in bufs[index + 1].flags

\* C27: a QBUF of the owner with an index out of range or on a queued slot
\* fails with EINVAL; a QBUF that fails changes neither a slot nor the
\* backend; a QBUF that succeeds was on a slot in range that was not queued,
\* hands its index to the backend and sets QUEUED on that slot alone; and no
\* step but a successful QBUF makes a slot queued.
C27_Queue ==
    /\ [][(Ended({"qbuf"}) /\ hasOwnership(last'.file))
             => /\ (last'.n >= bufferCount_ \/ Queued(buffers_, last'.n))
                     => last'.ret = "EINVAL"
                /\ last'.ret # "OK" => UNCHANGED <<buffers_, vcam_>>
                /\ last'.ret = "OK"
                     => /\ last'.n < bufferCount_
                        /\ ~Queued(buffers_, last'.n)
                        /\ vcam_'.pendingRequests_ = Append(vcam_.pendingRequests_, last'.n)
                        /\ buffers_' = [buffers_ EXCEPT
                                           ![last'.n + 1].flags = @ \cup {"QUEUED"}]]_vars
    /\ [][\A i \in 0..MaxBuffers :
             (~Queued(buffers_, i) /\ Queued(buffers_', i))
                => (last'.op = "qbuf" /\ last'.ret = "OK" /\ last'.n = i)]_vars

\* The owner has queued slot 0 again while it was queued: EINVAL, and the
\* backend holds the one request.
C27_QueuedTwice ==
    /\ last.op = "qbuf" /\ last.ret = "EINVAL" /\ last.n = 0
    /\ hasOwnership(last.file)
    /\ Queued(buffers_, 0)
    /\ vcam_.pendingRequests_ = <<0>>

(* ------------------------------------------------------------------ *)
(* Memory mapping                                                       *)
(* ------------------------------------------------------------------ *)

\* The mmap and munmap calls, with wrong protections, offsets and lengths
\* among them, on a backend whose configuration at open may be a raw format.
SpecMap ==
    InitOf({"mmap", "munmap"}) /\ [][NextOf([RawBackend EXCEPT !.valid = BOOLEAN])]_vars

\* C28: an mmap succeeds or fails with EINVAL (or with the error of the
\* environment's mmap); when it fails it records nothing; when it succeeds
\* its offset is the one of an allocated slot, it records the one mapping
\* from a new address to that slot and sets MAPPED on that slot alone. A
\* munmap succeeds or fails with EINVAL; when it fails the mappings are as
\* they were, when it succeeds it removes the one mapping of its address.
C28_MapAndUnmap ==
    /\ [][Ended({"mmap"})
             => /\ last'.ret \in {"OK", "EINVAL", "ENOMEM"}
                /\ last'.ret # "OK" => UNCHANGED <<mmaps_, buffers_>>
                /\ last'.ret = "OK"
                     => /\ last'.n < Len(buffers_)
                        /\ \E a \in Addrs \ DOMAIN mmaps_ :
                              mmaps_' = AddMapping(mmaps_, a, last'.n)
                        /\ buffers_' = [buffers_ EXCEPT
                                           ![last'.n + 1].flags = @ \cup {"MAPPED"}]]_vars
    /\ [][Ended({"munmap"})
             => /\ last'.ret \in {"OK", "EINVAL"}
                /\ last'.ret # "OK" => UNCHANGED <<mmaps_, buffers_>>
                /\ last'.ret = "OK"
                     => \E a \in DOMAIN mmaps_ :
                           /\ mmaps_[a] = last'.n
                           /\ mmaps_' = RemoveMapping(mmaps_, a)]_vars

(* ------------------------------------------------------------------ *)
(* Query                                                                *)
(* ------------------------------------------------------------------ *)

\* Two files with and without priority that allocate, queue and query; the
\* backend may fail, and a QUERYBUF may name any index.
Queries == [TwoFiles EXCEPT !.valid = BOOLEAN]

SpecQuery == InitOf({"querybuf"}) /\ [][NextOf(Queries)]_vars

\* C29: a QUERYBUF of an open file ends with success or EINVAL, whoever owns
\* the device and whatever the priorities; it succeeds only with an index
\* below the buffer count and fails with EINVAL with an index at or above it;
\* a failed one changes nothing, a successful one drains the pending
\* completions into the slot table and changes nothing else (owner, cursor,
\* queued flags, buffer count, mappings).
C29_QueryOnlyDrains ==
    [][Ended({"querybuf"})
          => /\ last'.ret \in {"OK", "EINVAL"}
             /\ last'.n >= bufferCount_ => last'.ret = "EINVAL"
             /\ last'.ret = "EINVAL" => UNCHANGED devVars
             /\ last'.ret = "OK"
                  => /\ last'.n < bufferCount_
                     /\ buffers_' = Drained
                     /\ \A i \in 1..Len(buffers_) :
                           "QUEUED" \in buffers_'[i].flags
                              <=> "QUEUED" \in buffers_[i].flags
                     /\ UNCHANGED <<files_, refcount_, owner_, bufferCount_,
                                    currentBuf_, mmaps_, sizeimage_,
                                    curV4L2Format_, streamConfig_, priority,
                                    waiting>>]_vars

(* ------------------------------------------------------------------ *)
(* Draining the completions                                             *)
(* ------------------------------------------------------------------ *)

\* One application that allocates, queues, queries, dequeues, stops and
\* frees; the queries, the dequeues, the stops and the REQBUFS are recorded.
SpecDrain ==
    InitOf({"querybuf", "dqbuf", "streamoff", "reqbufs"}) /\ [][NextOf(OneFile)]_vars

\* Slot i of the table is done.
SlotDone(bufs, i) == i <= Len(bufs) /\ "DONE" \in bufs[i].flags

\* C30: draining with no completion pending changes no slot, and draining
\* again what was just drained changes nothing more; a QUERYBUF leaves every
\* done slot done; a slot that is done stays done in every step but a
\* successful DQBUF that returns that slot, a STREAMOFF, or a REQBUFS (which
\* frees or rebuilds the table).
C30_DoneStaysUntilDequeued ==
    /\ [](/\ updateBuffers(buffers_, {}) = buffers_
          /\ updateBuffers(Drained, vcam_.completedBuffers_) = Drained)
    /\ [][(Ended({"querybuf"}) /\ vcam_.completedBuffers_ = {})
              => buffers_' = buffers_]_vars
    /\ [][Ended({"querybuf"})
              => \A i \in 1..Len(buffers_) :
                    SlotDone(buffers_, i) => SlotDone(buffers_', i)]_vars
    /\ [][\A i \in 1..Len(buffers_) :
              (SlotDone(buffers_, i) /\ ~SlotDone(buffers_', i))
                 => \/ Ended({"dqbuf"}) /\ last'.ret = "OK" /\ last'.n = i - 1
                    \/ Ended({"streamoff"})
                    \/ Ended({"reqbufs"})]_vars

\* A QUERYBUF with nothing pending has ended on a table with a done slot.
C30_QueriedDoneSlot ==
    /\ last.op = "querybuf"
    /\ last.ret = "OK"
    /\ vcam_.completedBuffers_ = {}
    /\ SlotDone(buffers_, last.n + 1)

(* ------------------------------------------------------------------ *)
(* Completion metadata                                                  *)
(* ------------------------------------------------------------------ *)

\* One application that queues, queries and dequeues one buffer; the backend
\* reports frames with a timestamp of 0 and with a timestamp of 1 s and 1500 ns.
Stamped ==
    [OneFile EXCEPT !.data = {NoData, LateData}, !.counts = {0, 1}, !.grants = {1}]

SpecStamp == InitOf({"querybuf", "dqbuf"}) /\ [][NextOf(Stamped)]_vars

\* C31: after a successful QUERYBUF or DQBUF, the slot of every completion
\* the call drained with outcome success, bytes used L, sequence S and
\* timestamp T ns (the only completion pending for its slot) has
\* bytesused = L, sequence = S, tv_sec = T div 10^9 and
\* tv_usec = (T div 1000) mod 10^6.
C31_MetadataCopied ==
    [][(Ended({"querybuf", "dqbuf"}) /\ last'.ret = "OK")
          => \A c \in vcam_.completedBuffers_ :
                (/\ c.status = "FrameSuccess"
                 /\ c.index < Len(buffers_')
                 /\ \A d \in vcam_.completedBuffers_ : d.index = c.index => d = c)
                   => /\ buffers_'[c.index + 1].bytesused = c.data.bytesused
                      /\ buffers_'[c.index + 1].sequence = c.data.sequence
                      /\ buffers_'[c.index + 1].timestamp.tv_sec
                            = c.data.timestamp \div 1000000000
                      /\ buffers_'[c.index + 1].timestamp.tv_usec
                            = (c.data.timestamp \div 1000) % 1000000]_vars

(* ------------------------------------------------------------------ *)
(* Open and close                                                       *)
(* ------------------------------------------------------------------ *)

\* C32: whenever no file is open, the buffer count is zero, the slot table is
\* empty, no mapping is recorded, the stream does not run and the device has
\* no owner.
C32_LastCloseTearsDown ==
    refcount_ = 0
       => /\ bufferCount_ = 0
          /\ buffers_ = <<>>
          /\ mmaps_ = <<>>
          /\ ~vcam_.isRunning_
          /\ owner_ = NoFile

\* The opens and the closes of two files are recorded; the backend's open
\* may fail.
SpecOpen == InitOf({"open", "close"}) /\ [][NextOf(TwoFiles)]_vars

\* C33: the reference count is the number of open files; the backend is open
\* exactly while the count is above zero; it is opened only by a successful
\* open that takes the count from 0 to 1 and closed only by a close that
\* takes it from 1 to 0; an open that fails leaves the count at 0, no file
\* registered and the backend closed.
C33_BackendOpenWhileFilesOpen ==
    /\ [](refcount_ = Cardinality(files_))
    /\ [](vcam_.isOpen_ <=> refcount_ > 0)
    /\ [][(~vcam_.isOpen_ /\ vcam_.isOpen_')
              => /\ Ended({"open"})
                 /\ last'.ret = "OK"
                 /\ refcount_ = 0
                 /\ refcount_' = 1]_vars
    /\ [][(vcam_.isOpen_ /\ ~vcam_.isOpen_')
              => /\ Ended({"close"})
                 /\ refcount_ = 1
                 /\ refcount_' = 0]_vars
    /\ [][(Ended({"open"}) /\ last'.ret # "OK")
              => /\ refcount_ = 0
                 /\ refcount_' = 0
                 /\ files_' = {}
                 /\ ~vcam_.isOpen_']_vars

\* One of two open files has been closed and the backend is still open.
C33_ClosedOneOfTwo ==
    /\ last.op = "close"
    /\ refcount_ = 1
    /\ vcam_.isOpen_

\* C34: the owner is no file or an open file, and a close of the owner leaves
\* the device without owner.
C34_OwnerIsOpen ==
    /\ [](owner_ = NoFile \/ owner_ \in files_)
    /\ [][(Ended({"close"}) /\ last'.file = owner_) => owner_' = NoFile]_vars

\* The file that allocated the buffers and owned the device has been closed
\* while another file is open.
C34_OwnerClosed ==
    /\ last.op = "close"
    /\ owner_ = NoFile
    /\ files_ # {}
    /\ buffers_ # <<>>

(* ------------------------------------------------------------------ *)
(* Invariants of the running stream                                     *)
(* ------------------------------------------------------------------ *)

\* C35: while the stream runs, the buffer count is above zero and the cursor
\* is below the buffer count and below the size of the slot table.
C35_CursorInTableWhileRunning ==
    vcam_.isRunning_
       => /\ bufferCount_ > 0
          /\ currentBuf_ < bufferCount_
          /\ currentBuf_ < Len(buffers_)

\* C36: while the stream runs, the device is owned by an open file.
C36_RunningIsOwned ==
    vcam_.isRunning_ => (owner_ # NoFile /\ owner_ \in files_)

(* ------------------------------------------------------------------ *)
(* Invariants of the slot table                                         *)
(* ------------------------------------------------------------------ *)

\* C37: a slot has the MAPPED flag exactly when the mapping table holds a
\* mapping of its index, and every mapping is of an index below the buffer
\* count.
C37_MappedIffInTable ==
    /\ \A i \in 1..Len(buffers_) :
          "MAPPED" \in buffers_[i].flags
             <=> \E a \in DOMAIN mmaps_ : mmaps_[a] = i - 1
    /\ \A a \in DOMAIN mmaps_ : mmaps_[a] < bufferCount_

\* C38: every slot of the table has the current frame size as its length and
\* index * frame size as its offset.
C38_SlotsHaveFrameSize ==
    \A i \in 1..Len(buffers_) :
       /\ buffers_[i].length = sizeimage_
       /\ buffers_[i].offset = (i - 1) * sizeimage_

\* One application whose requests the backend completes with success or with
\* error; the dequeues, the stops and the REQBUFS are recorded.
Failing ==
    [OneFile EXCEPT !.status = {"FrameSuccess", "FrameError"}, !.counts = {0, 1},
                    !.grants = {1}]

SpecError == InitOf({"dqbuf", "streamoff", "reqbufs"}) /\ [][NextOf(Failing)]_vars

\* Slot i of the table has the ERROR flag.
SlotError(bufs, i) == i <= Len(bufs) /\ "ERROR" \in bufs[i].flags

\* C39: a slot that has the ERROR flag keeps it in every step (a dequeue, a
\* QBUF, a drain of a later successful completion, a stream stop) but a
\* REQBUFS, which frees or rebuilds the table.
C39_ErrorStaysUntilRealloc ==
    [][\A i \in 1..Len(buffers_) :
          (SlotError(buffers_, i) /\ ~SlotError(buffers_', i))
             => Ended({"reqbufs"})]_vars

\* A slot that had an error has been queued again and has completed with
\* success: it is both in error and done.
C39_ErrorAndDone ==
    \E i \in 1..Len(buffers_) : {"ERROR", "DONE"} \subseteq buffers_[i].flags

(* ------------------------------------------------------------------ *)
(* G_PRIORITY                                                           *)
(* ------------------------------------------------------------------ *)

\* Two files that set every priority; the G_PRIORITY are recorded.
SpecGetPriority ==
    InitOf({"g_priority"}) /\ [][NextOf([TwoFiles EXCEPT !.prio = PriorityArgs])]_vars

\* C40: a G_PRIORITY of an open file (with an argument to write to) succeeds,
\* changes nothing of the device, and returns the highest priority of the
\* open files, which need not be the caller's.
C40_GetPriorityIsMax ==
    [][Ended({"g_priority"})
          => /\ last'.ret = "OK"
             /\ UNCHANGED devVars
             /\ \A f \in files_ : priority[f] <= last'.n
             /\ \E f \in files_ : priority[f] = last'.n]_vars

\* A G_PRIORITY has returned a priority above the caller's.
C40_ReturnedAnothersPriority ==
    /\ last.op = "g_priority"
    /\ last.file \in files_
    /\ last.n > priority[last.file]

====
